---- MODULE Spec2Model ----
(***************************************************************************)
(* Model of the farmers-market vendor discovery and extraction programs:   *)
(*   - the LLM response parsers (test_claude_response.py,                  *)
(*     debug_json_parsing.py, claude_vendor_extractor.py,                  *)
(*     llm_vendor_extractor.py),                                           *)
(*   - the link and content scorers (vendor_page_finder.py,                *)
(*     vendor_crawler.py),                                                 *)
(*   - the per-site crawl loops (find_vendor_page_candidates,              *)
(*     crawl_for_vendors),                                                 *)
(*   - the batch drivers and the files they write (process_vendor_pages,   *)
(*     process_all_markets, extract_from_candidates),                      *)
(*   - the vendor filter (analyze_vendors.py) and the site scraper         *)
(*     (scraper.py).                                                       *)
(* Texts are TLA+ strings handled character by character (Len, SubSeq,     *)
(* \o); scores are IEEE-754 doubles, added and compared exactly.           *)
(***************************************************************************)
EXTENDS Integers, Sequences, FiniteSets, TLC

VARIABLES
    \* the response parsers
    shape,           \* the LLM response: how its text is composed (see RenderResponse)
    response_text,   \* the LLM response: the raw text handed to a parser
    parser,          \* which parser was called on the response ("none" before the call)
    result,          \* what the parser returned (see NoResult for the fields)
    raised,          \* TRUE iff the call raised an exception to its caller
    \* the scorers
    in_link_text,    \* the anchor text of the link handed to a link scorer
    in_link_url,     \* the URL of that link ("" when a page text is scored instead)
    in_content,      \* the page text handed to a content scorer
    scorer,          \* which scorer was called ("none" before the call)
    scored,          \* what the scorer returned (see NoScore for the fields)
    \* one crawler object and the site it crawls
    variant,         \* "finder" (VendorPageFinder) or "crawler" (VendorPageCrawler)
    max_depth,       \* self.max_depth
    site,            \* the site: the text of its root page and the links on it
    visited_urls,    \* self.visited_urls
    to_visit,        \* the local to_visit of the running crawl: <<url, depth>> pairs
    candidates,      \* the local candidates / vendor_pages of the running crawl
    pc,              \* "idle" before a crawl, "crawling" in its loop, "returned" after
    crawls,          \* how many crawls this object has started
    fetch_log,       \* the fetches and sleeps of the running crawl, in order
    \* one batch run
    batch,           \* "pages" (process_vendor_pages), "markets" (process_all_markets)
                     \* or "candidates" (extract_from_candidates)
    entries,         \* the entries of the input file, in order
    results,         \* the local results / all_results of the running batch
    events,          \* per item processed: the page its first fetch met and how
                     \* that fetch ended, the content given to the LLM and how the
                     \* API call ended, the vendors collected before dedupe (raw)
    saved,           \* the files the batch has written: file name |-> JSON document
    bpc,             \* "idle" before the batch, "running" in its loop, "done" after
                     \* its return, "raised" after an exception left it
    \* one call of is_likely_vendor
    vendor,          \* the vendor record handed to it
    likely,          \* what it returned (FALSE before the call)
    clean_name,      \* the local clean_name of analyze_vendor_data ("" before the call)
    apc,             \* "idle" before the call, "called" after
    \* one call of scrape_site
    scrape_name,     \* its argument market_name
    scrape_url,      \* its argument url (a str or None)
    cleaned_url,     \* its local clean_url (None before the call)
    scraped,         \* the ScrapedSite it returned (see NoSite)
    fetched,         \* the URLs session.get was called with, in order
    spc              \* "idle" before the call, "done" after

parserVars == <<shape, response_text, parser, result, raised>>
scorerVars == <<in_link_text, in_link_url, in_content, scorer, scored>>
crawlVars == <<variant, max_depth, site, visited_urls, to_visit, candidates, pc,
               crawls, fetch_log>>
batchVars == <<batch, entries, results, events, saved, bpc>>
filterVars == <<vendor, likely, clean_name, apc>>
scrapeVars == <<scrape_name, scrape_url, cleaned_url, scraped, fetched, spc>>
otherVars == <<batchVars, filterVars, scrapeVars>>
vars == <<parserVars, scorerVars, crawlVars, otherVars>>

(***************************************************************************)
(* Character-level string helpers (Python str operations).                 *)
(***************************************************************************)

\* s[i] for a 1-based index, "" outside the string
Ch(s, i) == IF i >= 1 /\ i <= Len(s) THEN SubSeq(s, i, i) ELSE ""

\* s[i-1:j-1] of Python for 1-based i and exclusive 1-based end j (an end past
\* the string is the end of the string)
Slice(s, i, j) ==
    LET end == IF j > Len(s) THEN Len(s) + 1 ELSE j
    IN IF end > i THEN SubSeq(s, i, end - 1) ELSE ""

\* s.startswith(k, i-1)
StartsAt(s, k, i) == i >= 1 /\ i + Len(k) - 1 <= Len(s) /\ SubSeq(s, i, i + Len(k) - 1) = k

\* k in s
Contains(s, k) == \E i \in 1..(Len(s) - Len(k) + 1) : StartsAt(s, k, i)

\* s.find(k, from-1) + 1: the least 1-based index >= from where k starts, 0 if none
Find(s, k, from) ==
    IF \E i \in from..(Len(s) - Len(k) + 1) : StartsAt(s, k, i)
    THEN CHOOSE i \in from..(Len(s) - Len(k) + 1) :
            StartsAt(s, k, i) /\ \A j \in from..(i - 1) : ~StartsAt(s, k, j)
    ELSE 0

\* s.rfind(k) + 1: the greatest 1-based index where k starts, 0 if none
RFind(s, k) ==
    LET hits == {i \in 1..(Len(s) - Len(k) + 1) : StartsAt(s, k, i)}
    IN IF hits = {} THEN 0 ELSE CHOOSE i \in hits : \A j \in hits : i >= j

UpperChars == <<"A","B","C","D","E","F","G","H","I","J","K","L","M",
                "N","O","P","Q","R","S","T","U","V","W","X","Y","Z">>
LowerChars == <<"a","b","c","d","e","f","g","h","i","j","k","l","m",
                "n","o","p","q","r","s","t","u","v","w","x","y","z">>
DigitChars == {"0","1","2","3","4","5","6","7","8","9"}

\* the classes [A-Z], [a-z], [a-zA-Z] and [0-9] of re
IsUpper(c) == \E i \in 1..26 : UpperChars[i] = c
IsLower(c) == \E i \in 1..26 : LowerChars[i] = c
IsAlpha(c) == IsUpper(c) \/ IsLower(c)
IsDigit(c) == c \in DigitChars

(***************************************************************************)
(* The characters a string of this module can hold are those a TLA+ string *)
(* literal can hold: U+0001..U+00FF but the backquote, and of              *)
(* U+0100..U+FFFF the characters whose code is 128..255 modulo 256 (the    *)
(* surrogates apart).  The texts write the tilde for the backquote and none *)
(* uses the tilde for anything else, so that the alphabet is U+0001..U+00FF *)
(* without U+007E and the part of U+0100..U+FFFF above.  Alphabet lists it *)
(* by code, which gives chr(); the character data below is that of Python  *)
(* 3.11 (Unicode 14.0), given by code for the whole range U+0000..U+FFFF.  *)
(* An operation of the program whose result holds a character outside the  *)
(* alphabet (the lower case of U+0181, the character of the escape \u2019  *)
(* in a json string) has no value here: see NotHeld.                       *)
(***************************************************************************)

Alphabet == "	\n\r !\"#$%&'()*+,-./0123456789:;<=>?@ABCDEFGHIJKLMNOPQRSTUVWXYZ[\\]^_~abcdefghijklmnopqrstuvwxyz{|} ¡¢£¤¥¦§¨©ª«¬­®¯°±²³´µ¶·¸¹º»¼½¾¿ÀÁÂÃÄÅÆÇÈÉÊËÌÍÎÏÐÑÒÓÔÕÖ×ØÙÚÛÜÝÞßàáâãäåæçèéêëìíîïðñòóôõö÷øùúûüýþÿƀƁƂƃƄƅƆƇƈƉƊƋƌƍƎƏƐƑƒƓƔƕƖƗƘƙƚƛƜƝƞƟƠơƢƣƤƥƦƧƨƩƪƫƬƭƮƯưƱƲƳƴƵƶƷƸƹƺƻƼƽƾƿǀǁǂǃǄǅǆǇǈǉǊǋǌǍǎǏǐǑǒǓǔǕǖǗǘǙǚǛǜǝǞǟǠǡǢǣǤǥǦǧǨǩǪǫǬǭǮǯǰǱǲǳǴǵǶǷǸǹǺǻǼǽǾǿʀʁʂʃʄʅʆʇʈʉʊʋʌʍʎʏʐʑʒʓʔʕʖʗʘʙʚʛʜʝʞʟʠʡʢʣʤʥʦʧʨʩʪʫʬʭʮʯʰʱʲʳʴʵʶʷʸʹʺʻʼʽʾʿˀˁ˂˃˄˅ˆˇˈˉˊˋˌˍˎˏːˑ˒˓˔˕˖˗˘˙˚˛˜˝˞˟ˠˡˢˣˤ˥˦˧˨˩˪˫ˬ˭ˮ˯˰˱˲˳˴˵˶˷˸˹˺˻˼˽˾˿΀΁΂΃΄΅Ά·ΈΉΊ΋Ό΍ΎΏΐΑΒΓΔΕΖΗΘΙΚΛΜΝΞΟΠΡ΢ΣΤΥΦΧΨΩΪΫάέήίΰαβγδεζηθικλμνξοπρςστυφχψωϊϋόύώϏϐϑϒϓϔϕϖϗϘϙϚϛϜϝϞϟϠϡϢϣϤϥϦϧϨϩϪϫϬϭϮϯϰϱϲϳϴϵ϶ϷϸϹϺϻϼϽϾϿҀҁ҂҃҄҅҆҇҈҉ҊҋҌҍҎҏҐґҒғҔҕҖҗҘҙҚқҜҝҞҟҠҡҢңҤҥҦҧҨҩҪҫҬҭҮүҰұҲҳҴҵҶҷҸҹҺһҼҽҾҿӀӁӂӃӄӅӆӇӈӉӊӋӌӍӎӏӐӑӒӓӔӕӖӗӘәӚӛӜӝӞӟӠӡӢӣӤӥӦӧӨөӪӫӬӭӮӯӰӱӲӳӴӵӶӷӸӹӺӻӼӽӾӿրցւփքօֆևֈ։֊֋֌֍֎֏֐ְֱֲֳִֵֶַָֹֺֻּֽ֑֖֛֢֣֤֥֦֧֪֚֭֮֒֓֔֕֗֘֙֜֝֞֟֠֡֨֩֫֬֯־ֿ׀ׁׂ׃ׅׄ׆ׇ׈׉׊׋׌׍׎׏אבגדהוזחטיךכלםמןנסעףפץצקרשת׫׬׭׮ׯװױײ׳״׵׶׷׸׹׺׻׼׽׾׿ڀځڂڃڄڅچڇڈډڊڋڌڍڎڏڐڑڒړڔڕږڗژڙښڛڜڝڞڟڠڡڢڣڤڥڦڧڨکڪګڬڭڮگڰڱڲڳڴڵڶڷڸڹںڻڼڽھڿۀہۂۃۄۅۆۇۈۉۊۋیۍێۏېۑےۓ۔ەۖۗۘۙۚۛۜ۝۞ۣ۟۠ۡۢۤۥۦۧۨ۩۪ۭ۫۬ۮۯ۰۱۲۳۴۵۶۷۸۹ۺۻۼ۽۾ۿހށނރބޅކއވމފދތލގޏސޑޒޓޔޕޖޗޘޙޚޛޜޝޞޟޠޡޢޣޤޥަާިީުޫެޭޮޯްޱ޲޳޴޵޶޷޸޹޺޻޼޽޾޿߀߁߂߃߄߅߆߇߈߉ߊߋߌߍߎߏߐߑߒߓߔߕߖߗߘߙߚߛߜߝߞߟߠߡߢߣߤߥߦߧߨߩߪ߲߫߬߭߮߯߰߱߳ߴߵ߶߷߸߹ߺ߻߼߽߾߿ࢀࢁࢂࢃࢄࢅࢆࢇ࢈ࢉࢊࢋࢌࢍࢎ࢏࢐࢑࢒࢓࢔࢕࢖࢙࢚࢛ࢗ࢘࢜࢝࢞࢟ࢠࢡࢢࢣࢤࢥࢦࢧࢨࢩࢪࢫࢬࢭࢮࢯࢰࢱࢲࢳࢴࢵࢶࢷࢸࢹࢺࢻࢼࢽࢾࢿࣀࣁࣂࣃࣄࣅࣆࣇࣈࣉ࣏࣐࣑࣒࣓࣊࣋࣌࣍࣎ࣔࣕࣖࣗࣘࣙࣚࣛࣜࣝࣞࣟ࣠࣡࣢ࣰࣱࣲࣣࣦࣩ࣭࣮࣯ࣶࣹࣺࣤࣥࣧࣨ࣪࣫࣬ࣳࣴࣵࣷࣸࣻࣼࣽࣾࣿঀঁংঃ঄অআইঈউঊঋঌ঍঎এঐ঑঒ওঔকখগঘঙচছজঝঞটঠডঢণতথদধন঩পফবভমযর঱ল঳঴঵শষসহ঺঻়ঽািীুূৃৄ৅৆েৈ৉৊োৌ্ৎ৏৐৑৒৓৔৕৖ৗ৘৙৚৛ড়ঢ়৞য়ৠৡৢৣ৤৥০১২৩৪৫৬৭৮৯ৰৱ৲৳৴৵৶৷৸৹৺৻ৼ৽৾৿઀ઁંઃ઄અઆઇઈઉઊઋઌઍ઎એઐઑ઒ઓઔકખગઘઙચછજઝઞટઠડઢણતથદધન઩પફબભમયર઱લળ઴વશષસહ઺઻઼ઽાિીુૂૃૄૅ૆ેૈૉ૊ોૌ્૎૏ૐ૑૒૓૔૕૖૗૘૙૚૛૜૝૞૟ૠૡૢૣ૤૥૦૧૨૩૪૫૬૭૮૯૰૱૲૳૴૵૶૷૸ૹૺૻૼ૽૾૿஀஁ஂஃ஄அஆஇஈஉஊ஋஌஍எஏஐ஑ஒஓஔக஖஗஘ஙச஛ஜ஝ஞட஠஡஢ணத஥஦஧நனப஫஬஭மயரறலளழவஶஷஸஹ஺஻஼஽ாிீுூ௃௄௅ெேை௉ொோௌ்௎௏ௐ௑௒௓௔௕௖ௗ௘௙௚௛௜௝௞௟௠௡௢௣௤௥௦௧௨௩௪௫௬௭௮௯௰௱௲௳௴௵௶௷௸௹௺௻௼௽௾௿ಀಁಂಃ಄ಅಆಇಈಉಊಋಌ಍ಎಏಐ಑ಒಓಔಕಖಗಘಙಚಛಜಝಞಟಠಡಢಣತಥದಧನ಩ಪಫಬಭಮಯರಱಲಳ಴ವಶಷಸಹ಺಻಼ಽಾಿೀುೂೃೄ೅ೆೇೈ೉ೊೋೌ್೎೏೐೑೒೓೔ೕೖ೗೘೙೚೛೜ೝೞ೟ೠೡೢೣ೤೥೦೧೨೩೪೫೬೭೮೯೰ೱೲೳ೴೵೶೷೸೹೺೻೼೽೾೿඀ඁංඃ඄අආඇඈඉඊඋඌඍඎඏඐඑඒඓඔඕඖ඗඘඙කඛගඝඞඟචඡජඣඤඥඦටඨඩඪණඬතථදධන඲ඳපඵබභමඹයර඼ල඾඿වශෂසහළෆ෇෈෉්෋෌෍෎ාැෑිීු෕ූ෗ෘෙේෛොෝෞෟ෠෡෢෣෤෥෦෧෨෩෪෫෬෭෮෯෰෱ෲෳ෴෵෶෷෸෹෺෻෼෽෾෿຀ກຂ຃ຄ຅ຆງຈຉຊ຋ຌຍຎຏຐຑຒຓດຕຖທຘນບປຜຝພຟຠມຢຣ຤ລ຦ວຨຩສຫຬອຮຯະັາຳິີຶື຺ຸູົຼຽ຾຿ເແໂໃໄ໅ໆ໇່້໊໋໌ໍ໎໏໐໑໒໓໔໕໖໗໘໙໚໛ໜໝໞໟ໠໡໢໣໤໥໦໧໨໩໪໫໬໭໮໯໰໱໲໳໴໵໶໷໸໹໺໻໼໽໾໿྄ཱྀྀྂྃ྅྆྇ྈྉྊྋྌྍྎྏྐྑྒྒྷྔྕྖྗ྘ྙྚྛྜྜྷྞྟྠྡྡྷྣྤྥྦྦྷྨྩྪྫྫྷྭྮྯྰྱྲླྴྵྶྷྸྐྵྺྻྼ྽྾྿࿀࿁࿂࿃࿄࿅࿆࿇࿈࿉࿊࿋࿌࿍࿎࿏࿐࿑࿒࿓࿔࿕࿖࿗࿘࿙࿚࿛࿜࿝࿞࿟࿠࿡࿢࿣࿤࿥࿦࿧࿨࿩࿪࿫࿬࿭࿮࿯࿰࿱࿲࿳࿴࿵࿶࿷࿸࿹࿺࿻࿼࿽࿾࿿ႀႁႂႃႄႅႆႇႈႉႊႋႌႍႎႏ႐႑႒႓႔႕႖႗႘႙ႚႛႜႝ႞႟ႠႡႢႣႤႥႦႧႨႩႪႫႬႭႮႯႰႱႲႳႴႵႶႷႸႹႺႻႼႽႾႿჀჁჂჃჄჅ჆Ⴧ჈჉჊჋჌Ⴭ჎჏აბგდევზთიკლმნოპჟრსტუფქღყშჩცძწჭხჯჰჱჲჳჴჵჶჷჸჹჺ჻ჼჽჾჿᆀᆁᆂᆃᆄᆅᆆᆇᆈᆉᆊᆋᆌᆍᆎᆏᆐᆑᆒᆓᆔᆕᆖᆗᆘᆙᆚᆛᆜᆝᆞᆟᆠᆡᆢᆣᆤᆥᆦᆧᆨᆩᆪᆫᆬᆭᆮᆯᆰᆱᆲᆳᆴᆵᆶᆷᆸᆹᆺᆻᆼᆽᆾᆿᇀᇁᇂᇃᇄᇅᇆᇇᇈᇉᇊᇋᇌᇍᇎᇏᇐᇑᇒᇓᇔᇕᇖᇗᇘᇙᇚᇛᇜᇝᇞᇟᇠᇡᇢᇣᇤᇥᇦᇧᇨᇩᇪᇫᇬᇭᇮᇯᇰᇱᇲᇳᇴᇵᇶᇷᇸᇹᇺᇻᇼᇽᇾᇿኀኁኂኃኄኅኆኇኈ኉ኊኋኌኍ኎኏ነኑኒናኔንኖኗኘኙኚኛኜኝኞኟአኡኢኣኤእኦኧከኩኪካኬክኮኯኰ኱ኲኳኴኵ኶኷ኸኹኺኻኼኽኾ኿ዀ዁ዂዃዄዅ዆዇ወዉዊዋዌውዎዏዐዑዒዓዔዕዖ዗ዘዙዚዛዜዝዞዟዠዡዢዣዤዥዦዧየዩዪያዬይዮዯደዱዲዳዴድዶዷዸዹዺዻዼዽዾዿᎀᎁᎂᎃᎄᎅᎆᎇᎈᎉᎊᎋᎌᎍᎎᎏ᎐᎑᎒᎓᎔᎕᎖᎗᎘᎙᎚᎛᎜᎝᎞᎟ᎠᎡᎢᎣᎤᎥᎦᎧᎨᎩᎪᎫᎬᎭᎮᎯᎰᎱᎲᎳᎴᎵᎶᎷᎸᎹᎺᎻᎼᎽᎾᎿᏀᏁᏂᏃᏄᏅᏆᏇᏈᏉᏊᏋᏌᏍᏎᏏᏐᏑᏒᏓᏔᏕᏖᏗᏘᏙᏚᏛᏜᏝᏞᏟᏠᏡᏢᏣᏤᏥᏦᏧᏨᏩᏪᏫᏬᏭᏮᏯᏰᏱᏲᏳᏴᏵ᏶᏷ᏸᏹᏺᏻᏼᏽ᏾᏿ᒀᒁᒂᒃᒄᒅᒆᒇᒈᒉᒊᒋᒌᒍᒎᒏᒐᒑᒒᒓᒔᒕᒖᒗᒘᒙᒚᒛᒜᒝᒞᒟᒠᒡᒢᒣᒤᒥᒦᒧᒨᒩᒪᒫᒬᒭᒮᒯᒰᒱᒲᒳᒴᒵᒶᒷᒸᒹᒺᒻᒼᒽᒾᒿᓀᓁᓂᓃᓄᓅᓆᓇᓈᓉᓊᓋᓌᓍᓎᓏᓐᓑᓒᓓᓔᓕᓖᓗᓘᓙᓚᓛᓜᓝᓞᓟᓠᓡᓢᓣᓤᓥᓦᓧᓨᓩᓪᓫᓬᓭᓮᓯᓰᓱᓲᓳᓴᓵᓶᓷᓸᓹᓺᓻᓼᓽᓾᓿᖀᖁᖂᖃᖄᖅᖆᖇᖈᖉᖊᖋᖌᖍᖎᖏᖐᖑᖒᖓᖔᖕᖖᖗᖘᖙᖚᖛᖜᖝᖞᖟᖠᖡᖢᖣᖤᖥᖦᖧᖨᖩᖪᖫᖬᖭᖮᖯᖰᖱᖲᖳᖴᖵᖶᖷᖸᖹᖺᖻᖼᖽᖾᖿᗀᗁᗂᗃᗄᗅᗆᗇᗈᗉᗊᗋᗌᗍᗎᗏᗐᗑᗒᗓᗔᗕᗖᗗᗘᗙᗚᗛᗜᗝᗞᗟᗠᗡᗢᗣᗤᗥᗦᗧᗨᗩᗪᗫᗬᗭᗮᗯᗰᗱᗲᗳᗴᗵᗶᗷᗸᗹᗺᗻᗼᗽᗾᗿ ᚁᚂᚃᚄᚅᚆᚇᚈᚉᚊᚋᚌᚍᚎᚏᚐᚑᚒᚓᚔᚕᚖᚗᚘᚙᚚ᚛᚜᚝᚞᚟ᚠᚡᚢᚣᚤᚥᚦᚧᚨᚩᚪᚫᚬᚭᚮᚯᚰᚱᚲᚳᚴᚵᚶᚷᚸᚹᚺᚻᚼᚽᚾᚿᛀᛁᛂᛃᛄᛅᛆᛇᛈᛉᛊᛋᛌᛍᛎᛏᛐᛑᛒᛓᛔᛕᛖᛗᛘᛙᛚᛛᛜᛝᛞᛟᛠᛡᛢᛣᛤᛥᛦᛧᛨᛩᛪ᛫᛬᛭ᛮᛯᛰᛱᛲᛳᛴᛵᛶᛷᛸ᛹᛺᛻᛼᛽᛾᛿កខគឃងចឆជឈញដឋឌឍណតថទធនបផពភមយរលវឝឞសហឡអឣឤឥឦឧឨឩឪឫឬឭឮឯឰឱឲឳ឴឵ាិីឹឺុូួើឿៀេែៃោៅំះៈ៉៊់៌៍៎៏័៑្៓។៕៖ៗ៘៙៚៛ៜ៝៞៟០១២៣៤៥៦៧៨៩៪៫៬៭៮៯៰៱៲៳៴៵៶៷៸៹៺៻៼៽៾៿ᢀᢁᢂᢃᢄᢅᢆᢇᢈᢉᢊᢋᢌᢍᢎᢏᢐᢑᢒᢓᢔᢕᢖᢗᢘᢙᢚᢛᢜᢝᢞᢟᢠᢡᢢᢣᢤᢥᢦᢧᢨᢩᢪ᢫᢬᢭᢮᢯ᢰᢱᢲᢳᢴᢵᢶᢷᢸᢹᢺᢻᢼᢽᢾᢿᣀᣁᣂᣃᣄᣅᣆᣇᣈᣉᣊᣋᣌᣍᣎᣏᣐᣑᣒᣓᣔᣕᣖᣗᣘᣙᣚᣛᣜᣝᣞᣟᣠᣡᣢᣣᣤᣥᣦᣧᣨᣩᣪᣫᣬᣭᣮᣯᣰᣱᣲᣳᣴᣵ᣶᣷᣸᣹᣺᣻᣼᣽᣾᣿ᦀᦁᦂᦃᦄᦅᦆᦇᦈᦉᦊᦋᦌᦍᦎᦏᦐᦑᦒᦓᦔᦕᦖᦗᦘᦙᦚᦛᦜᦝᦞᦟᦠᦡᦢᦣᦤᦥᦦᦧᦨᦩᦪᦫ᦬᦭᦮᦯ᦰᦱᦲᦳᦴᦵᦶᦷᦸᦹᦺᦻᦼᦽᦾᦿᧀᧁᧂᧃᧄᧅᧆᧇᧈᧉ᧊᧋᧌᧍᧎᧏᧐᧑᧒᧓᧔᧕᧖᧗᧘᧙᧚᧛᧜᧝᧞᧟᧠᧡᧢᧣᧤᧥᧦᧧᧨᧩᧪᧫᧬᧭᧮᧯᧰᧱᧲᧳᧴᧵᧶᧷᧸᧹᧺᧻᧼᧽᧾᧿᪀᪁᪂᪃᪄᪅᪆᪇᪈᪉᪊᪋᪌᪍᪎᪏᪐᪑᪒᪓᪔᪕᪖᪗᪘᪙᪚᪛᪜᪝᪞᪟᪠᪡᪢᪣᪤᪥᪦ᪧ᪨᪩᪪᪫᪬᪭᪮᪯᪵᪶᪷᪸᪹᪺᪽᪰᪱᪲᪳᪴᪻᪼᪾ᪿᫀ᫃᫄᫊᫁᫂᫅᫆᫇᫈᫉᫋ᫌᫍᫎ᫏᫐᫑᫒᫓᫔᫕᫖᫗᫘᫙᫚᫛᫜᫝᫞᫟᫠᫡᫢᫣᫤᫥᫦᫧᫨᫩᫪᫫᫬᫭᫮᫯᫰᫱᫲᫳᫴᫵᫶᫷᫸᫹᫺᫻᫼᫽᫾᫿ᮀᮁᮂᮃᮄᮅᮆᮇᮈᮉᮊᮋᮌᮍᮎᮏᮐᮑᮒᮓᮔᮕᮖᮗᮘᮙᮚᮛᮜᮝᮞᮟᮠᮡᮢᮣᮤᮥᮦᮧᮨᮩ᮪᮫ᮬᮭᮮᮯ᮰᮱᮲᮳᮴᮵᮶᮷᮸᮹ᮺᮻᮼᮽᮾᮿᯀᯁᯂᯃᯄᯅᯆᯇᯈᯉᯊᯋᯌᯍᯎᯏᯐᯑᯒᯓᯔᯕᯖᯗᯘᯙᯚᯛᯜᯝᯞᯟᯠᯡᯢᯣᯤᯥ᯦ᯧᯨᯩᯪᯫᯬᯭᯮᯯᯰᯱ᯲᯳᯴᯵᯶᯷᯸᯹᯺᯻᯼᯽᯾᯿ᲀᲁᲂᲃᲄᲅᲆᲇᲈᲉᲊ᲋᲌᲍᲎᲏ᲐᲑᲒᲓᲔᲕᲖᲗᲘᲙᲚᲛᲜᲝᲞᲟᲠᲡᲢᲣᲤᲥᲦᲧᲨᲩᲪᲫᲬᲭᲮᲯᲰᲱᲲᲳᲴᲵᲶᲷᲸᲹᲺ᲻᲼ᲽᲾᲿ᳀᳁᳂᳃᳄᳅᳆᳇᳈᳉᳊᳋᳌᳍᳎᳏᳐᳑᳒᳓᳔᳕᳖᳗᳘᳙᳜᳝᳞᳟᳚᳛᳠᳡᳢᳣᳤᳥᳦᳧᳨ᳩᳪᳫᳬ᳭ᳮᳯᳰᳱᳲᳳ᳴ᳵᳶ᳷᳸᳹ᳺ᳻᳼᳽᳾᳿ᶀᶁᶂᶃᶄᶅᶆᶇᶈᶉᶊᶋᶌᶍᶎᶏᶐᶑᶒᶓᶔᶕᶖᶗᶘᶙᶚᶛᶜᶝᶞᶟᶠᶡᶢᶣᶤᶥᶦᶧᶨᶩᶪᶫᶬᶭᶮᶯᶰᶱᶲᶳᶴᶵᶶᶷᶸᶹᶺᶻᶼᶽᶾᶿ᷐᷎᷺᷂᷊᷏᷹᷽᷿᷷᷸᷀᷁᷃᷄᷅᷆᷇᷈᷉᷋᷌᷑᷒ᷓᷔᷕᷖᷗᷘᷙᷚᷛᷜᷝᷞᷟᷠᷡᷢᷣᷤᷥᷦᷧᷨᷩᷪᷫᷬᷭᷮᷯᷰᷱᷲᷳᷴ᷵᷻᷾᷶᷼᷍ẀẁẂẃẄẅẆẇẈẉẊẋẌẍẎẏẐẑẒẓẔẕẖẗẘẙẚẛẜẝẞẟẠạẢảẤấẦầẨẩẪẫẬậẮắẰằẲẳẴẵẶặẸẹẺẻẼẽẾếỀềỂểỄễỆệỈỉỊịỌọỎỏỐốỒồỔổỖỗỘộỚớỜờỞởỠỡỢợỤụỦủỨứỪừỬửỮữỰựỲỳỴỵỶỷỸỹỺỻỼỽỾỿᾀᾁᾂᾃᾄᾅᾆᾇᾈᾉᾊᾋᾌᾍᾎᾏᾐᾑᾒᾓᾔᾕᾖᾗᾘᾙᾚᾛᾜᾝᾞᾟᾠᾡᾢᾣᾤᾥᾦᾧᾨᾩᾪᾫᾬᾭᾮᾯᾰᾱᾲᾳᾴ᾵ᾶᾷᾸᾹᾺΆᾼ᾽ι᾿῀῁ῂῃῄ῅ῆῇῈΈῊΉῌ῍῎῏ῐῑῒΐ῔῕ῖῗῘῙῚΊ῜῝῞῟ῠῡῢΰῤῥῦῧῨῩῪΎῬ῭΅`῰῱ῲῳῴ῵ῶῷῸΌῺΏῼ´῾῿₀₁₂₃₄₅₆₇₈₉₊₋₌₍₎₏ₐₑₒₓₔₕₖₗₘₙₚₛₜ₝₞₟₠₡₢₣₤₥₦₧₨₩₪₫€₭₮₯₰₱₲₳₴₵₶₷₸₹₺₻₼₽₾₿⃀⃁⃂⃃⃄⃅⃆⃇⃈⃉⃊⃋⃌⃍⃎⃏⃒⃓⃘⃙⃚⃐⃑⃔⃕⃖⃗⃛⃜⃝⃞⃟⃠⃡⃢⃣⃤⃥⃦⃪⃫⃨⃬⃭⃮⃯⃧⃩⃰⃱⃲⃳⃴⃵⃶⃷⃸⃹⃺⃻⃼⃽⃾⃿ↀↁↂↃↄↅↆↇↈ↉↊↋↌↍↎↏←↑→↓↔↕↖↗↘↙↚↛↜↝↞↟↠↡↢↣↤↥↦↧↨↩↪↫↬↭↮↯↰↱↲↳↴↵↶↷↸↹↺↻↼↽↾↿⇀⇁⇂⇃⇄⇅⇆⇇⇈⇉⇊⇋⇌⇍⇎⇏⇐⇑⇒⇓⇔⇕⇖⇗⇘⇙⇚⇛⇜⇝⇞⇟⇠⇡⇢⇣⇤⇥⇦⇧⇨⇩⇪⇫⇬⇭⇮⇯⇰⇱⇲⇳⇴⇵⇶⇷⇸⇹⇺⇻⇼⇽⇾⇿⊀⊁⊂⊃⊄⊅⊆⊇⊈⊉⊊⊋⊌⊍⊎⊏⊐⊑⊒⊓⊔⊕⊖⊗⊘⊙⊚⊛⊜⊝⊞⊟⊠⊡⊢⊣⊤⊥⊦⊧⊨⊩⊪⊫⊬⊭⊮⊯⊰⊱⊲⊳⊴⊵⊶⊷⊸⊹⊺⊻⊼⊽⊾⊿⋀⋁⋂⋃⋄⋅⋆⋇⋈⋉⋊⋋⋌⋍⋎⋏⋐⋑⋒⋓⋔⋕⋖⋗⋘⋙⋚⋛⋜⋝⋞⋟⋠⋡⋢⋣⋤⋥⋦⋧⋨⋩⋪⋫⋬⋭⋮⋯⋰⋱⋲⋳⋴⋵⋶⋷⋸⋹⋺⋻⋼⋽⋾⋿⎀⎁⎂⎃⎄⎅⎆⎇⎈⎉⎊⎋⎌⎍⎎⎏⎐⎑⎒⎓⎔⎕⎖⎗⎘⎙⎚⎛⎜⎝⎞⎟⎠⎡⎢⎣⎤⎥⎦⎧⎨⎩⎪⎫⎬⎭⎮⎯⎰⎱⎲⎳⎴⎵⎶⎷⎸⎹⎺⎻⎼⎽⎾⎿⏀⏁⏂⏃⏄⏅⏆⏇⏈⏉⏊⏋⏌⏍⏎⏏⏐⏑⏒⏓⏔⏕⏖⏗⏘⏙⏚⏛⏜⏝⏞⏟⏠⏡⏢⏣⏤⏥⏦⏧⏨⏩⏪⏫⏬⏭⏮⏯⏰⏱⏲⏳⏴⏵⏶⏷⏸⏹⏺⏻⏼⏽⏾⏿⒀⒁⒂⒃⒄⒅⒆⒇⒈⒉⒊⒋⒌⒍⒎⒏⒐⒑⒒⒓⒔⒕⒖⒗⒘⒙⒚⒛⒜⒝⒞⒟⒠⒡⒢⒣⒤⒥⒦⒧⒨⒩⒪⒫⒬⒭⒮⒯⒰⒱⒲⒳⒴⒵ⒶⒷⒸⒹⒺⒻⒼⒽⒾⒿⓀⓁⓂⓃⓄⓅⓆⓇⓈⓉⓊⓋⓌⓍⓎⓏⓐⓑⓒⓓⓔⓕⓖⓗⓘⓙⓚⓛⓜⓝⓞⓟⓠⓡⓢⓣⓤⓥⓦⓧⓨⓩ⓪⓫⓬⓭⓮⓯⓰⓱⓲⓳⓴⓵⓶⓷⓸⓹⓺⓻⓼⓽⓾⓿▀▁▂▃▄▅▆▇█▉▊▋▌▍▎▏▐░▒▓▔▕▖▗▘▙▚▛▜▝▞▟■□▢▣▤▥▦▧▨▩▪▫▬▭▮▯▰▱▲△▴▵▶▷▸▹►▻▼▽▾▿◀◁◂◃◄◅◆◇◈◉◊○◌◍◎●◐◑◒◓◔◕◖◗◘◙◚◛◜◝◞◟◠◡◢◣◤◥◦◧◨◩◪◫◬◭◮◯◰◱◲◳◴◵◶◷◸◹◺◻◼◽◾◿⚀⚁⚂⚃⚄⚅⚆⚇⚈⚉⚊⚋⚌⚍⚎⚏⚐⚑⚒⚓⚔⚕⚖⚗⚘⚙⚚⚛⚜⚝⚞⚟⚠⚡⚢⚣⚤⚥⚦⚧⚨⚩⚪⚫⚬⚭⚮⚯⚰⚱⚲⚳⚴⚵⚶⚷⚸⚹⚺⚻⚼⚽⚾⚿⛀⛁⛂⛃⛄⛅⛆⛇⛈⛉⛊⛋⛌⛍⛎⛏⛐⛑⛒⛓⛔⛕⛖⛗⛘⛙⛚⛛⛜⛝⛞⛟⛠⛡⛢⛣⛤⛥⛦⛧⛨⛩⛪⛫⛬⛭⛮⛯⛰⛱⛲⛳⛴⛵⛶⛷⛸⛹⛺⛻⛼⛽⛾⛿➀➁➂➃➄➅➆➇➈➉➊➋➌➍➎➏➐➑➒➓➔➕➖➗➘➙➚➛➜➝➞➟➠➡➢➣➤➥➦➧➨➩➪➫➬➭➮➯➰➱➲➳➴➵➶➷➸➹➺➻➼➽➾➿⟀⟁⟂⟃⟄⟅⟆⟇⟈⟉⟊⟋⟌⟍⟎⟏⟐⟑⟒⟓⟔⟕⟖⟗⟘⟙⟚⟛⟜⟝⟞⟟⟠⟡⟢⟣⟤⟥⟦⟧⟨⟩⟪⟫⟬⟭⟮⟯⟰⟱⟲⟳⟴⟵⟶⟷⟸⟹⟺⟻⟼⟽⟾⟿⢀⢁⢂⢃⢄⢅⢆⢇⢈⢉⢊⢋⢌⢍⢎⢏⢐⢑⢒⢓⢔⢕⢖⢗⢘⢙⢚⢛⢜⢝⢞⢟⢠⢡⢢⢣⢤⢥⢦⢧⢨⢩⢪⢫⢬⢭⢮⢯⢰⢱⢲⢳⢴⢵⢶⢷⢸⢹⢺⢻⢼⢽⢾⢿⣀⣁⣂⣃⣄⣅⣆⣇⣈⣉⣊⣋⣌⣍⣎⣏⣐⣑⣒⣓⣔⣕⣖⣗⣘⣙⣚⣛⣜⣝⣞⣟⣠⣡⣢⣣⣤⣥⣦⣧⣨⣩⣪⣫⣬⣭⣮⣯⣰⣱⣲⣳⣴⣵⣶⣷⣸⣹⣺⣻⣼⣽⣾⣿⦀⦁⦂⦃⦄⦅⦆⦇⦈⦉⦊⦋⦌⦍⦎⦏⦐⦑⦒⦓⦔⦕⦖⦗⦘⦙⦚⦛⦜⦝⦞⦟⦠⦡⦢⦣⦤⦥⦦⦧⦨⦩⦪⦫⦬⦭⦮⦯⦰⦱⦲⦳⦴⦵⦶⦷⦸⦹⦺⦻⦼⦽⦾⦿⧀⧁⧂⧃⧄⧅⧆⧇⧈⧉⧊⧋⧌⧍⧎⧏⧐⧑⧒⧓⧔⧕⧖⧗⧘⧙⧚⧛⧜⧝⧞⧟⧠⧡⧢⧣⧤⧥⧦⧧⧨⧩⧪⧫⧬⧭⧮⧯⧰⧱⧲⧳⧴⧵⧶⧷⧸⧹⧺⧻⧼⧽⧾⧿⪀⪁⪂⪃⪄⪅⪆⪇⪈⪉⪊⪋⪌⪍⪎⪏⪐⪑⪒⪓⪔⪕⪖⪗⪘⪙⪚⪛⪜⪝⪞⪟⪠⪡⪢⪣⪤⪥⪦⪧⪨⪩⪪⪫⪬⪭⪮⪯⪰⪱⪲⪳⪴⪵⪶⪷⪸⪹⪺⪻⪼⪽⪾⪿⫀⫁⫂⫃⫄⫅⫆⫇⫈⫉⫊⫋⫌⫍⫎⫏⫐⫑⫒⫓⫔⫕⫖⫗⫘⫙⫚⫛⫝̸⫝⫞⫟⫠⫡⫢⫣⫤⫥⫦⫧⫨⫩⫪⫫⫬⫭⫮⫯⫰⫱⫲⫳⫴⫵⫶⫷⫸⫹⫺⫻⫼⫽⫾⫿⮀⮁⮂⮃⮄⮅⮆⮇⮈⮉⮊⮋⮌⮍⮎⮏⮐⮑⮒⮓⮔⮕⮖⮗⮘⮙⮚⮛⮜⮝⮞⮟⮠⮡⮢⮣⮤⮥⮦⮧⮨⮩⮪⮫⮬⮭⮮⮯⮰⮱⮲⮳⮴⮵⮶⮷⮸⮹⮺⮻⮼⮽⮾⮿⯀⯁⯂⯃⯄⯅⯆⯇⯈⯉⯊⯋⯌⯍⯎⯏⯐⯑⯒⯓⯔⯕⯖⯗⯘⯙⯚⯛⯜⯝⯞⯟⯠⯡⯢⯣⯤⯥⯦⯧⯨⯩⯪⯫⯬⯭⯮⯯⯰⯱⯲⯳⯴⯵⯶⯷⯸⯹⯺⯻⯼⯽⯾⯿ⲀⲁⲂⲃⲄⲅⲆⲇⲈⲉⲊⲋⲌⲍⲎⲏⲐⲑⲒⲓⲔⲕⲖⲗⲘⲙⲚⲛⲜⲝⲞⲟⲠⲡⲢⲣⲤⲥⲦⲧⲨⲩⲪⲫⲬⲭⲮⲯⲰⲱⲲⲳⲴⲵⲶⲷⲸⲹⲺⲻⲼⲽⲾⲿⳀⳁⳂⳃⳄⳅⳆⳇⳈⳉⳊⳋⳌⳍⳎⳏⳐⳑⳒⳓⳔⳕⳖⳗⳘⳙⳚⳛⳜⳝⳞⳟⳠⳡⳢⳣⳤ⳥⳦⳧⳨⳩⳪ⳫⳬⳭⳮ⳯⳰⳱Ⳳⳳ⳴⳵⳶⳷⳸⳹⳺⳻⳼⳽⳾⳿ⶀⶁⶂⶃⶄⶅⶆⶇⶈⶉⶊⶋⶌⶍⶎⶏⶐⶑⶒⶓⶔⶕⶖ⶗⶘⶙⶚⶛⶜⶝⶞⶟ⶠⶡⶢⶣⶤⶥⶦ⶧ⶨⶩⶪⶫⶬⶭⶮ⶯ⶰⶱⶲⶳⶴⶵⶶ⶷ⶸⶹⶺⶻⶼⶽⶾ⶿ⷀⷁⷂⷃⷄⷅⷆ⷇ⷈⷉⷊⷋⷌⷍⷎ⷏ⷐⷑⷒⷓⷔⷕⷖ⷗ⷘⷙⷚⷛⷜⷝⷞ⷟ⷠⷡⷢⷣⷤⷥⷦⷧⷨⷩⷪⷫⷬⷭⷮⷯⷰⷱⷲⷳⷴⷵⷶⷷⷸⷹⷺⷻⷼⷽⷾⷿ⺀⺁⺂⺃⺄⺅⺆⺇⺈⺉⺊⺋⺌⺍⺎⺏⺐⺑⺒⺓⺔⺕⺖⺗⺘⺙⺚⺛⺜⺝⺞⺟⺠⺡⺢⺣⺤⺥⺦⺧⺨⺩⺪⺫⺬⺭⺮⺯⺰⺱⺲⺳⺴⺵⺶⺷⺸⺹⺺⺻⺼⺽⺾⺿⻀⻁⻂⻃⻄⻅⻆⻇⻈⻉⻊⻋⻌⻍⻎⻏⻐⻑⻒⻓⻔⻕⻖⻗⻘⻙⻚⻛⻜⻝⻞⻟⻠⻡⻢⻣⻤⻥⻦⻧⻨⻩⻪⻫⻬⻭⻮⻯⻰⻱⻲⻳⻴⻵⻶⻷⻸⻹⻺⻻⻼⻽⻾⻿⾀⾁⾂⾃⾄⾅⾆⾇⾈⾉⾊⾋⾌⾍⾎⾏⾐⾑⾒⾓⾔⾕⾖⾗⾘⾙⾚⾛⾜⾝⾞⾟⾠⾡⾢⾣⾤⾥⾦⾧⾨⾩⾪⾫⾬⾭⾮⾯⾰⾱⾲⾳⾴⾵⾶⾷⾸⾹⾺⾻⾼⾽⾾⾿⿀⿁⿂⿃⿄⿅⿆⿇⿈⿉⿊⿋⿌⿍⿎⿏⿐⿑⿒⿓⿔⿕⿖⿗⿘⿙⿚⿛⿜⿝⿞⿟⿠⿡⿢⿣⿤⿥⿦⿧⿨⿩⿪⿫⿬⿭⿮⿯⿰⿱⿲⿳⿴⿵⿶⿷⿸⿹⿺⿻⿼⿽⿾⿿むめもゃやゅゆょよらりるれろゎわゐゑをんゔゕゖ゗゘゙゚゛゜ゝゞゟ゠ァアィイゥウェエォオカガキギクグケゲコゴサザシジスズセゼソゾタダチヂッツヅテデトドナニヌネノハバパヒビピフブプヘベペホボポマミムメモャヤュユョヨラリルレロヮワヰヱヲンヴヵヶヷヸヹヺ・ーヽヾヿㆀㆁㆂㆃㆄㆅㆆㆇㆈㆉㆊㆋㆌㆍㆎ㆏㆐㆑㆒㆓㆔㆕㆖㆗㆘㆙㆚㆛㆜㆝㆞㆟ㆠㆡㆢㆣㆤㆥㆦㆧㆨㆩㆪㆫㆬㆭㆮㆯㆰㆱㆲㆳㆴㆵㆶㆷㆸㆹㆺㆻㆼㆽㆾㆿ㇀㇁㇂㇃㇄㇅㇆㇇㇈㇉㇊㇋㇌㇍㇎㇏㇐㇑㇒㇓㇔㇕㇖㇗㇘㇙㇚㇛㇜㇝㇞㇟㇠㇡㇢㇣㇤㇥㇦㇧㇨㇩㇪㇫㇬㇭㇮㇯ㇰㇱㇲㇳㇴㇵㇶㇷㇸㇹㇺㇻㇼㇽㇾㇿ㊀㊁㊂㊃㊄㊅㊆㊇㊈㊉㊊㊋㊌㊍㊎㊏㊐㊑㊒㊓㊔㊕㊖㊗㊘㊙㊚㊛㊜㊝㊞㊟㊠㊡㊢㊣㊤㊥㊦㊧㊨㊩㊪㊫㊬㊭㊮㊯㊰㊱㊲㊳㊴㊵㊶㊷㊸㊹㊺㊻㊼㊽㊾㊿㋀㋁㋂㋃㋄㋅㋆㋇㋈㋉㋊㋋㋌㋍㋎㋏㋐㋑㋒㋓㋔㋕㋖㋗㋘㋙㋚㋛㋜㋝㋞㋟㋠㋡㋢㋣㋤㋥㋦㋧㋨㋩㋪㋫㋬㋭㋮㋯㋰㋱㋲㋳㋴㋵㋶㋷㋸㋹㋺㋻㋼㋽㋾㋿㎀㎁㎂㎃㎄㎅㎆㎇㎈㎉㎊㎋㎌㎍㎎㎏㎐㎑㎒㎓㎔㎕㎖㎗㎘㎙㎚㎛㎜㎝㎞㎟㎠㎡㎢㎣㎤㎥㎦㎧㎨㎩㎪㎫㎬㎭㎮㎯㎰㎱㎲㎳㎴㎵㎶㎷㎸㎹㎺㎻㎼㎽㎾㎿㏀㏁㏂㏃㏄㏅㏆㏇㏈㏉㏊㏋㏌㏍㏎㏏㏐㏑㏒㏓㏔㏕㏖㏗㏘㏙㏚㏛㏜㏝㏞㏟㏠㏡㏢㏣㏤㏥㏦㏧㏨㏩㏪㏫㏬㏭㏮㏯㏰㏱㏲㏳㏴㏵㏶㏷㏸㏹㏺㏻㏼㏽㏾㏿㒀㒁㒂㒃㒄㒅㒆㒇㒈㒉㒊㒋㒌㒍㒎㒏㒐㒑㒒㒓㒔㒕㒖㒗㒘㒙㒚㒛㒜㒝㒞㒟㒠㒡㒢㒣㒤㒥㒦㒧㒨㒩㒪㒫㒬㒭㒮㒯㒰㒱㒲㒳㒴㒵㒶㒷㒸㒹㒺㒻㒼㒽㒾㒿㓀㓁㓂㓃㓄㓅㓆㓇㓈㓉㓊㓋㓌㓍㓎㓏㓐㓑㓒㓓㓔㓕㓖㓗㓘㓙㓚㓛㓜㓝㓞㓟㓠㓡㓢㓣㓤㓥㓦㓧㓨㓩㓪㓫㓬㓭㓮㓯㓰㓱㓲㓳㓴㓵㓶㓷㓸㓹㓺㓻㓼㓽㓾㓿㖀㖁㖂㖃㖄㖅㖆㖇㖈㖉㖊㖋㖌㖍㖎㖏㖐㖑㖒㖓㖔㖕㖖㖗㖘㖙㖚㖛㖜㖝㖞㖟㖠㖡㖢㖣㖤㖥㖦㖧㖨㖩㖪㖫㖬㖭㖮㖯㖰㖱㖲㖳㖴㖵㖶㖷㖸㖹㖺㖻㖼㖽㖾㖿㗀㗁㗂㗃㗄㗅㗆㗇㗈㗉㗊㗋㗌㗍㗎㗏㗐㗑㗒㗓㗔㗕㗖㗗㗘㗙㗚㗛㗜㗝㗞㗟㗠㗡㗢㗣㗤㗥㗦㗧㗨㗩㗪㗫㗬㗭㗮㗯㗰㗱㗲㗳㗴㗵㗶㗷㗸㗹㗺㗻㗼㗽㗾㗿㚀㚁㚂㚃㚄㚅㚆㚇㚈㚉㚊㚋㚌㚍㚎㚏㚐㚑㚒㚓㚔㚕㚖㚗㚘㚙㚚㚛㚜㚝㚞㚟㚠㚡㚢㚣㚤㚥㚦㚧㚨㚩㚪㚫㚬㚭㚮㚯㚰㚱㚲㚳㚴㚵㚶㚷㚸㚹㚺㚻㚼㚽㚾㚿㛀㛁㛂㛃㛄㛅㛆㛇㛈㛉㛊㛋㛌㛍㛎㛏㛐㛑㛒㛓㛔㛕㛖㛗㛘㛙㛚㛛㛜㛝㛞㛟㛠㛡㛢㛣㛤㛥㛦㛧㛨㛩㛪㛫㛬㛭㛮㛯㛰㛱㛲㛳㛴㛵㛶㛷㛸㛹㛺㛻㛼㛽㛾㛿㞀㞁㞂㞃㞄㞅㞆㞇㞈㞉㞊㞋㞌㞍㞎㞏㞐㞑㞒㞓㞔㞕㞖㞗㞘㞙㞚㞛㞜㞝㞞㞟㞠㞡㞢㞣㞤㞥㞦㞧㞨㞩㞪㞫㞬㞭㞮㞯㞰㞱㞲㞳㞴㞵㞶㞷㞸㞹㞺㞻㞼㞽㞾㞿㟀㟁㟂㟃㟄㟅㟆㟇㟈㟉㟊㟋㟌㟍㟎㟏㟐㟑㟒㟓㟔㟕㟖㟗㟘㟙㟚㟛㟜㟝㟞㟟㟠㟡㟢㟣㟤㟥㟦㟧㟨㟩㟪㟫㟬㟭㟮㟯㟰㟱㟲㟳㟴㟵㟶㟷㟸㟹㟺㟻㟼㟽㟾㟿㢀㢁㢂㢃㢄㢅㢆㢇㢈㢉㢊㢋㢌㢍㢎㢏㢐㢑㢒㢓㢔㢕㢖㢗㢘㢙㢚㢛㢜㢝㢞㢟㢠㢡㢢㢣㢤㢥㢦㢧㢨㢩㢪㢫㢬㢭㢮㢯㢰㢱㢲㢳㢴㢵㢶㢷㢸㢹㢺㢻㢼㢽㢾㢿㣀㣁㣂㣃㣄㣅㣆㣇㣈㣉㣊㣋㣌㣍㣎㣏㣐㣑㣒㣓㣔㣕㣖㣗㣘㣙㣚㣛㣜㣝㣞㣟㣠㣡㣢㣣㣤㣥㣦㣧㣨㣩㣪㣫㣬㣭㣮㣯㣰㣱㣲㣳㣴㣵㣶㣷㣸㣹㣺㣻㣼㣽㣾㣿㦀㦁㦂㦃㦄㦅㦆㦇㦈㦉㦊㦋㦌㦍㦎㦏㦐㦑㦒㦓㦔㦕㦖㦗㦘㦙㦚㦛㦜㦝㦞㦟㦠㦡㦢㦣㦤㦥㦦㦧㦨㦩㦪㦫㦬㦭㦮㦯㦰㦱㦲㦳㦴㦵㦶㦷㦸㦹㦺㦻㦼㦽㦾㦿㧀㧁㧂㧃㧄㧅㧆㧇㧈㧉㧊㧋㧌㧍㧎㧏㧐㧑㧒㧓㧔㧕㧖㧗㧘㧙㧚㧛㧜㧝㧞㧟㧠㧡㧢㧣㧤㧥㧦㧧㧨㧩㧪㧫㧬㧭㧮㧯㧰㧱㧲㧳㧴㧵㧶㧷㧸㧹㧺㧻㧼㧽㧾㧿㪀㪁㪂㪃㪄㪅㪆㪇㪈㪉㪊㪋㪌㪍㪎㪏㪐㪑㪒㪓㪔㪕㪖㪗㪘㪙㪚㪛㪜㪝㪞㪟㪠㪡㪢㪣㪤㪥㪦㪧㪨㪩㪪㪫㪬㪭㪮㪯㪰㪱㪲㪳㪴㪵㪶㪷㪸㪹㪺㪻㪼㪽㪾㪿㫀㫁㫂㫃㫄㫅㫆㫇㫈㫉㫊㫋㫌㫍㫎㫏㫐㫑㫒㫓㫔㫕㫖㫗㫘㫙㫚㫛㫜㫝㫞㫟㫠㫡㫢㫣㫤㫥㫦㫧㫨㫩㫪㫫㫬㫭㫮㫯㫰㫱㫲㫳㫴㫵㫶㫷㫸㫹㫺㫻㫼㫽㫾㫿㮀㮁㮂㮃㮄㮅㮆㮇㮈㮉㮊㮋㮌㮍㮎㮏㮐㮑㮒㮓㮔㮕㮖㮗㮘㮙㮚㮛㮜㮝㮞㮟㮠㮡㮢㮣㮤㮥㮦㮧㮨㮩㮪㮫㮬㮭㮮㮯㮰㮱㮲㮳㮴㮵㮶㮷㮸㮹㮺㮻㮼㮽㮾㮿㯀㯁㯂㯃㯄㯅㯆㯇㯈㯉㯊㯋㯌㯍㯎㯏㯐㯑㯒㯓㯔㯕㯖㯗㯘㯙㯚㯛㯜㯝㯞㯟㯠㯡㯢㯣㯤㯥㯦㯧㯨㯩㯪㯫㯬㯭㯮㯯㯰㯱㯲㯳㯴㯵㯶㯷㯸㯹㯺㯻㯼㯽㯾㯿㲀㲁㲂㲃㲄㲅㲆㲇㲈㲉㲊㲋㲌㲍㲎㲏㲐㲑㲒㲓㲔㲕㲖㲗㲘㲙㲚㲛㲜㲝㲞㲟㲠㲡㲢㲣㲤㲥㲦㲧㲨㲩㲪㲫㲬㲭㲮㲯㲰㲱㲲㲳㲴㲵㲶㲷㲸㲹㲺㲻㲼㲽㲾㲿㳀㳁㳂㳃㳄㳅㳆㳇㳈㳉㳊㳋㳌㳍㳎㳏㳐㳑㳒㳓㳔㳕㳖㳗㳘㳙㳚㳛㳜㳝㳞㳟㳠㳡㳢㳣㳤㳥㳦㳧㳨㳩㳪㳫㳬㳭㳮㳯㳰㳱㳲㳳㳴㳵㳶㳷㳸㳹㳺㳻㳼㳽㳾㳿㶀㶁㶂㶃㶄㶅㶆㶇㶈㶉㶊㶋㶌㶍㶎㶏㶐㶑㶒㶓㶔㶕㶖㶗㶘㶙㶚㶛㶜㶝㶞㶟㶠㶡㶢㶣㶤㶥㶦㶧㶨㶩㶪㶫㶬㶭㶮㶯㶰㶱㶲㶳㶴㶵㶶㶷㶸㶹㶺㶻㶼㶽㶾㶿㷀㷁㷂㷃㷄㷅㷆㷇㷈㷉㷊㷋㷌㷍㷎㷏㷐㷑㷒㷓㷔㷕㷖㷗㷘㷙㷚㷛㷜㷝㷞㷟㷠㷡㷢㷣㷤㷥㷦㷧㷨㷩㷪㷫㷬㷭㷮㷯㷰㷱㷲㷳㷴㷵㷶㷷㷸㷹㷺㷻㷼㷽㷾㷿㺀㺁㺂㺃㺄㺅㺆㺇㺈㺉㺊㺋㺌㺍㺎㺏㺐㺑㺒㺓㺔㺕㺖㺗㺘㺙㺚㺛㺜㺝㺞㺟㺠㺡㺢㺣㺤㺥㺦㺧㺨㺩㺪㺫㺬㺭㺮㺯㺰㺱㺲㺳㺴㺵㺶㺷㺸㺹㺺㺻㺼㺽㺾㺿㻀㻁㻂㻃㻄㻅㻆㻇㻈㻉㻊㻋㻌㻍㻎㻏㻐㻑㻒㻓㻔㻕㻖㻗㻘㻙㻚㻛㻜㻝㻞㻟㻠㻡㻢㻣㻤㻥㻦㻧㻨㻩㻪㻫㻬㻭㻮㻯㻰㻱㻲㻳㻴㻵㻶㻷㻸㻹㻺㻻㻼㻽㻾㻿㾀㾁㾂㾃㾄㾅㾆㾇㾈㾉㾊㾋㾌㾍㾎㾏㾐㾑㾒㾓㾔㾕㾖㾗㾘㾙㾚㾛㾜㾝㾞㾟㾠㾡㾢㾣㾤㾥㾦㾧㾨㾩㾪㾫㾬㾭㾮㾯㾰㾱㾲㾳㾴㾵㾶㾷㾸㾹㾺㾻㾼㾽㾾㾿㿀㿁㿂㿃㿄㿅㿆㿇㿈㿉㿊㿋㿌㿍㿎㿏㿐㿑㿒㿓㿔㿕㿖㿗㿘㿙㿚㿛㿜㿝㿞㿟㿠㿡㿢㿣㿤㿥㿦㿧㿨㿩㿪㿫㿬㿭㿮㿯㿰㿱㿲㿳㿴㿵㿶㿷㿸㿹㿺㿻㿼㿽㿾㿿䂀䂁䂂䂃䂄䂅䂆䂇䂈䂉䂊䂋䂌䂍䂎䂏䂐䂑䂒䂓䂔䂕䂖䂗䂘䂙䂚䂛䂜䂝䂞䂟䂠䂡䂢䂣䂤䂥䂦䂧䂨䂩䂪䂫䂬䂭䂮䂯䂰䂱䂲䂳䂴䂵䂶䂷䂸䂹䂺䂻䂼䂽䂾䂿䃀䃁䃂䃃䃄䃅䃆䃇䃈䃉䃊䃋䃌䃍䃎䃏䃐䃑䃒䃓䃔䃕䃖䃗䃘䃙䃚䃛䃜䃝䃞䃟䃠䃡䃢䃣䃤䃥䃦䃧䃨䃩䃪䃫䃬䃭䃮䃯䃰䃱䃲䃳䃴䃵䃶䃷䃸䃹䃺䃻䃼䃽䃾䃿䆀䆁䆂䆃䆄䆅䆆䆇䆈䆉䆊䆋䆌䆍䆎䆏䆐䆑䆒䆓䆔䆕䆖䆗䆘䆙䆚䆛䆜䆝䆞䆟䆠䆡䆢䆣䆤䆥䆦䆧䆨䆩䆪䆫䆬䆭䆮䆯䆰䆱䆲䆳䆴䆵䆶䆷䆸䆹䆺䆻䆼䆽䆾䆿䇀䇁䇂䇃䇄䇅䇆䇇䇈䇉䇊䇋䇌䇍䇎䇏䇐䇑䇒䇓䇔䇕䇖䇗䇘䇙䇚䇛䇜䇝䇞䇟䇠䇡䇢䇣䇤䇥䇦䇧䇨䇩䇪䇫䇬䇭䇮䇯䇰䇱䇲䇳䇴䇵䇶䇷䇸䇹䇺䇻䇼䇽䇾䇿䊀䊁䊂䊃䊄䊅䊆䊇䊈䊉䊊䊋䊌䊍䊎䊏䊐䊑䊒䊓䊔䊕䊖䊗䊘䊙䊚䊛䊜䊝䊞䊟䊠䊡䊢䊣䊤䊥䊦䊧䊨䊩䊪䊫䊬䊭䊮䊯䊰䊱䊲䊳䊴䊵䊶䊷䊸䊹䊺䊻䊼䊽䊾䊿䋀䋁䋂䋃䋄䋅䋆䋇䋈䋉䋊䋋䋌䋍䋎䋏䋐䋑䋒䋓䋔䋕䋖䋗䋘䋙䋚䋛䋜䋝䋞䋟䋠䋡䋢䋣䋤䋥䋦䋧䋨䋩䋪䋫䋬䋭䋮䋯䋰䋱䋲䋳䋴䋵䋶䋷䋸䋹䋺䋻䋼䋽䋾䋿䎀䎁䎂䎃䎄䎅䎆䎇䎈䎉䎊䎋䎌䎍䎎䎏䎐䎑䎒䎓䎔䎕䎖䎗䎘䎙䎚䎛䎜䎝䎞䎟䎠䎡䎢䎣䎤䎥䎦䎧䎨䎩䎪䎫䎬䎭䎮䎯䎰䎱䎲䎳䎴䎵䎶䎷䎸䎹䎺䎻䎼䎽䎾䎿䏀䏁䏂䏃䏄䏅䏆䏇䏈䏉䏊䏋䏌䏍䏎䏏䏐䏑䏒䏓䏔䏕䏖䏗䏘䏙䏚䏛䏜䏝䏞䏟䏠䏡䏢䏣䏤䏥䏦䏧䏨䏩䏪䏫䏬䏭䏮䏯䏰䏱䏲䏳䏴䏵䏶䏷䏸䏹䏺䏻䏼䏽䏾䏿䒀䒁䒂䒃䒄䒅䒆䒇䒈䒉䒊䒋䒌䒍䒎䒏䒐䒑䒒䒓䒔䒕䒖䒗䒘䒙䒚䒛䒜䒝䒞䒟䒠䒡䒢䒣䒤䒥䒦䒧䒨䒩䒪䒫䒬䒭䒮䒯䒰䒱䒲䒳䒴䒵䒶䒷䒸䒹䒺䒻䒼䒽䒾䒿䓀䓁䓂䓃䓄䓅䓆䓇䓈䓉䓊䓋䓌䓍䓎䓏䓐䓑䓒䓓䓔䓕䓖䓗䓘䓙䓚䓛䓜䓝䓞䓟䓠䓡䓢䓣䓤䓥䓦䓧䓨䓩䓪䓫䓬䓭䓮䓯䓰䓱䓲䓳䓴䓵䓶䓷䓸䓹䓺䓻䓼䓽䓾䓿䖀䖁䖂䖃䖄䖅䖆䖇䖈䖉䖊䖋䖌䖍䖎䖏䖐䖑䖒䖓䖔䖕䖖䖗䖘䖙䖚䖛䖜䖝䖞䖟䖠䖡䖢䖣䖤䖥䖦䖧䖨䖩䖪䖫䖬䖭䖮䖯䖰䖱䖲䖳䖴䖵䖶䖷䖸䖹䖺䖻䖼䖽䖾䖿䗀䗁䗂䗃䗄䗅䗆䗇䗈䗉䗊䗋䗌䗍䗎䗏䗐䗑䗒䗓䗔䗕䗖䗗䗘䗙䗚䗛䗜䗝䗞䗟䗠䗡䗢䗣䗤䗥䗦䗧䗨䗩䗪䗫䗬䗭䗮䗯䗰䗱䗲䗳䗴䗵䗶䗷䗸䗹䗺䗻䗼䗽䗾䗿䚀䚁䚂䚃䚄䚅䚆䚇䚈䚉䚊䚋䚌䚍䚎䚏䚐䚑䚒䚓䚔䚕䚖䚗䚘䚙䚚䚛䚜䚝䚞䚟䚠䚡䚢䚣䚤䚥䚦䚧䚨䚩䚪䚫䚬䚭䚮䚯䚰䚱䚲䚳䚴䚵䚶䚷䚸䚹䚺䚻䚼䚽䚾䚿䛀䛁䛂䛃䛄䛅䛆䛇䛈䛉䛊䛋䛌䛍䛎䛏䛐䛑䛒䛓䛔䛕䛖䛗䛘䛙䛚䛛䛜䛝䛞䛟䛠䛡䛢䛣䛤䛥䛦䛧䛨䛩䛪䛫䛬䛭䛮䛯䛰䛱䛲䛳䛴䛵䛶䛷䛸䛹䛺䛻䛼䛽䛾䛿䞀䞁䞂䞃䞄䞅䞆䞇䞈䞉䞊䞋䞌䞍䞎䞏䞐䞑䞒䞓䞔䞕䞖䞗䞘䞙䞚䞛䞜䞝䞞䞟䞠䞡䞢䞣䞤䞥䞦䞧䞨䞩䞪䞫䞬䞭䞮䞯䞰䞱䞲䞳䞴䞵䞶䞷䞸䞹䞺䞻䞼䞽䞾䞿䟀䟁䟂䟃䟄䟅䟆䟇䟈䟉䟊䟋䟌䟍䟎䟏䟐䟑䟒䟓䟔䟕䟖䟗䟘䟙䟚䟛䟜䟝䟞䟟䟠䟡䟢䟣䟤䟥䟦䟧䟨䟩䟪䟫䟬䟭䟮䟯䟰䟱䟲䟳䟴䟵䟶䟷䟸䟹䟺䟻䟼䟽䟾䟿䢀䢁䢂䢃䢄䢅䢆䢇䢈䢉䢊䢋䢌䢍䢎䢏䢐䢑䢒䢓䢔䢕䢖䢗䢘䢙䢚䢛䢜䢝䢞䢟䢠䢡䢢䢣䢤䢥䢦䢧䢨䢩䢪䢫䢬䢭䢮䢯䢰䢱䢲䢳䢴䢵䢶䢷䢸䢹䢺䢻䢼䢽䢾䢿䣀䣁䣂䣃䣄䣅䣆䣇䣈䣉䣊䣋䣌䣍䣎䣏䣐䣑䣒䣓䣔䣕䣖䣗䣘䣙䣚䣛䣜䣝䣞䣟䣠䣡䣢䣣䣤䣥䣦䣧䣨䣩䣪䣫䣬䣭䣮䣯䣰䣱䣲䣳䣴䣵䣶䣷䣸䣹䣺䣻䣼䣽䣾䣿䦀䦁䦂䦃䦄䦅䦆䦇䦈䦉䦊䦋䦌䦍䦎䦏䦐䦑䦒䦓䦔䦕䦖䦗䦘䦙䦚䦛䦜䦝䦞䦟䦠䦡䦢䦣䦤䦥䦦䦧䦨䦩䦪䦫䦬䦭䦮䦯䦰䦱䦲䦳䦴䦵䦶䦷䦸䦹䦺䦻䦼䦽䦾䦿䧀䧁䧂䧃䧄䧅䧆䧇䧈䧉䧊䧋䧌䧍䧎䧏䧐䧑䧒䧓䧔䧕䧖䧗䧘䧙䧚䧛䧜䧝䧞䧟䧠䧡䧢䧣䧤䧥䧦䧧䧨䧩䧪䧫䧬䧭䧮䧯䧰䧱䧲䧳䧴䧵䧶䧷䧸䧹䧺䧻䧼䧽䧾䧿䪀䪁䪂䪃䪄䪅䪆䪇䪈䪉䪊䪋䪌䪍䪎䪏䪐䪑䪒䪓䪔䪕䪖䪗䪘䪙䪚䪛䪜䪝䪞䪟䪠䪡䪢䪣䪤䪥䪦䪧䪨䪩䪪䪫䪬䪭䪮䪯䪰䪱䪲䪳䪴䪵䪶䪷䪸䪹䪺䪻䪼䪽䪾䪿䫀䫁䫂䫃䫄䫅䫆䫇䫈䫉䫊䫋䫌䫍䫎䫏䫐䫑䫒䫓䫔䫕䫖䫗䫘䫙䫚䫛䫜䫝䫞䫟䫠䫡䫢䫣䫤䫥䫦䫧䫨䫩䫪䫫䫬䫭䫮䫯䫰䫱䫲䫳䫴䫵䫶䫷䫸䫹䫺䫻䫼䫽䫾䫿䮀䮁䮂䮃䮄䮅䮆䮇䮈䮉䮊䮋䮌䮍䮎䮏䮐䮑䮒䮓䮔䮕䮖䮗䮘䮙䮚䮛䮜䮝䮞䮟䮠䮡䮢䮣䮤䮥䮦䮧䮨䮩䮪䮫䮬䮭䮮䮯䮰䮱䮲䮳䮴䮵䮶䮷䮸䮹䮺䮻䮼䮽䮾䮿䯀䯁䯂䯃䯄䯅䯆䯇䯈䯉䯊䯋䯌䯍䯎䯏䯐䯑䯒䯓䯔䯕䯖䯗䯘䯙䯚䯛䯜䯝䯞䯟䯠䯡䯢䯣䯤䯥䯦䯧䯨䯩䯪䯫䯬䯭䯮䯯䯰䯱䯲䯳䯴䯵䯶䯷䯸䯹䯺䯻䯼䯽䯾䯿䲀䲁䲂䲃䲄䲅䲆䲇䲈䲉䲊䲋䲌䲍䲎䲏䲐䲑䲒䲓䲔䲕䲖䲗䲘䲙䲚䲛䲜䲝䲞䲟䲠䲡䲢䲣䲤䲥䲦䲧䲨䲩䲪䲫䲬䲭䲮䲯䲰䲱䲲䲳䲴䲵䲶䲷䲸䲹䲺䲻䲼䲽䲾䲿䳀䳁䳂䳃䳄䳅䳆䳇䳈䳉䳊䳋䳌䳍䳎䳏䳐䳑䳒䳓䳔䳕䳖䳗䳘䳙䳚䳛䳜䳝䳞䳟䳠䳡䳢䳣䳤䳥䳦䳧䳨䳩䳪䳫䳬䳭䳮䳯䳰䳱䳲䳳䳴䳵䳶䳷䳸䳹䳺䳻䳼䳽䳾䳿䶀䶁䶂䶃䶄䶅䶆䶇䶈䶉䶊䶋䶌䶍䶎䶏䶐䶑䶒䶓䶔䶕䶖䶗䶘䶙䶚䶛䶜䶝䶞䶟䶠䶡䶢䶣䶤䶥䶦䶧䶨䶩䶪䶫䶬䶭䶮䶯䶰䶱䶲䶳䶴䶵䶶䶷䶸䶹䶺䶻䶼䶽䶾䶿䷀䷁䷂䷃䷄䷅䷆䷇䷈䷉䷊䷋䷌䷍䷎䷏䷐䷑䷒䷓䷔䷕䷖䷗䷘䷙䷚䷛䷜䷝䷞䷟䷠䷡䷢䷣䷤䷥䷦䷧䷨䷩䷪䷫䷬䷭䷮䷯䷰䷱䷲䷳䷴䷵䷶䷷䷸䷹䷺䷻䷼䷽䷾䷿亀亁亂亃亄亅了亇予争亊事二亍于亏亐云互亓五井亖亗亘亙亚些亜亝亞亟亠亡亢亣交亥亦产亨亩亪享京亭亮亯亰亱亲亳亴亵亶亷亸亹人亻亼亽亾亿什仁仂仃仄仅仆仇仈仉今介仌仍从仏仐仑仒仓仔仕他仗付仙仚仛仜仝仞仟仠仡仢代令以仦仧仨仩仪仫们仭仮仯仰仱仲仳仴仵件价仸仹仺任仼份仾仿侀侁侂侃侄侅來侇侈侉侊例侌侍侎侏侐侑侒侓侔侕侖侗侘侙侚供侜依侞侟侠価侢侣侤侥侦侧侨侩侪侫侬侭侮侯侰侱侲侳侴侵侶侷侸侹侺侻侼侽侾便俀俁係促俄俅俆俇俈俉俊俋俌俍俎俏俐俑俒俓俔俕俖俗俘俙俚俛俜保俞俟俠信俢俣俤俥俦俧俨俩俪俫俬俭修俯俰俱俲俳俴俵俶俷俸俹俺俻俼俽俾俿傀傁傂傃傄傅傆傇傈傉傊傋傌傍傎傏傐傑傒傓傔傕傖傗傘備傚傛傜傝傞傟傠傡傢傣傤傥傦傧储傩傪傫催傭傮傯傰傱傲傳傴債傶傷傸傹傺傻傼傽傾傿僀僁僂僃僄僅僆僇僈僉僊僋僌働僎像僐僑僒僓僔僕僖僗僘僙僚僛僜僝僞僟僠僡僢僣僤僥僦僧僨僩僪僫僬僭僮僯僰僱僲僳僴僵僶僷僸價僺僻僼僽僾僿冀冁冂冃冄内円冇冈冉冊冋册再冎冏冐冑冒冓冔冕冖冗冘写冚军农冝冞冟冠冡冢冣冤冥冦冧冨冩冪冫冬冭冮冯冰冱冲决冴况冶冷冸冹冺冻冼冽冾冿净凁凂凃凄凅准凇凈凉凊凋凌凍凎减凐凑凒凓凔凕凖凗凘凙凚凛凜凝凞凟几凡凢凣凤凥処凧凨凩凪凫凬凭凮凯凰凱凲凳凴凵凶凷凸凹出击凼函凾凿劀劁劂劃劄劅劆劇劈劉劊劋劌劍劎劏劐劑劒劓劔劕劖劗劘劙劚力劜劝办功加务劢劣劤劥劦劧动助努劫劬劭劮劯劰励劲劳労劵劶劷劸効劺劻劼劽劾势勀勁勂勃勄勅勆勇勈勉勊勋勌勍勎勏勐勑勒勓勔動勖勗勘務勚勛勜勝勞募勠勡勢勣勤勥勦勧勨勩勪勫勬勭勮勯勰勱勲勳勴勵勶勷勸勹勺勻勼勽勾勿厀厁厂厃厄厅历厇厈厉厊压厌厍厎厏厐厑厒厓厔厕厖厗厘厙厚厛厜厝厞原厠厡厢厣厤厥厦厧厨厩厪厫厬厭厮厯厰厱厲厳厴厵厶厷厸厹厺去厼厽厾县叀叁参參叄叅叆叇又叉及友双反収叏叐发叒叓叔叕取受变叙叚叛叜叝叞叟叠叡叢口古句另叧叨叩只叫召叭叮可台叱史右叴叵叶号司叹叺叻叼叽叾叿咀咁咂咃咄咅咆咇咈咉咊咋和咍咎咏咐咑咒咓咔咕咖咗咘咙咚咛咜咝咞咟咠咡咢咣咤咥咦咧咨咩咪咫咬咭咮咯咰咱咲咳咴咵咶咷咸咹咺咻咼咽咾咿哀品哂哃哄哅哆哇哈哉哊哋哌响哎哏哐哑哒哓哔哕哖哗哘哙哚哛哜哝哞哟哠員哢哣哤哥哦哧哨哩哪哫哬哭哮哯哰哱哲哳哴哵哶哷哸哹哺哻哼哽哾哿喀喁喂喃善喅喆喇喈喉喊喋喌喍喎喏喐喑喒喓喔喕喖喗喘喙喚喛喜喝喞喟喠喡喢喣喤喥喦喧喨喩喪喫喬喭單喯喰喱喲喳喴喵営喷喸喹喺喻喼喽喾喿嗀嗁嗂嗃嗄嗅嗆嗇嗈嗉嗊嗋嗌嗍嗎嗏嗐嗑嗒嗓嗔嗕嗖嗗嗘嗙嗚嗛嗜嗝嗞嗟嗠嗡嗢嗣嗤嗥嗦嗧嗨嗩嗪嗫嗬嗭嗮嗯嗰嗱嗲嗳嗴嗵嗶嗷嗸嗹嗺嗻嗼嗽嗾嗿嚀嚁嚂嚃嚄嚅嚆嚇嚈嚉嚊嚋嚌嚍嚎嚏嚐嚑嚒嚓嚔嚕嚖嚗嚘嚙嚚嚛嚜嚝嚞嚟嚠嚡嚢嚣嚤嚥嚦嚧嚨嚩嚪嚫嚬嚭嚮嚯嚰嚱嚲嚳嚴嚵嚶嚷嚸嚹嚺嚻嚼嚽嚾嚿囀囁囂囃囄囅囆囇囈囉囊囋囌囍囎囏囐囑囒囓囔囕囖囗囘囙囚四囜囝回囟因囡团団囤囥囦囧囨囩囪囫囬园囮囯困囱囲図围囵囶囷囸囹固囻囼国图囿垀垁垂垃垄垅垆垇垈垉垊型垌垍垎垏垐垑垒垓垔垕垖垗垘垙垚垛垜垝垞垟垠垡垢垣垤垥垦垧垨垩垪垫垬垭垮垯垰垱垲垳垴垵垶垷垸垹垺垻垼垽垾垿埀埁埂埃埄埅埆埇埈埉埊埋埌埍城埏埐埑埒埓埔埕埖埗埘埙埚埛埜埝埞域埠埡埢埣埤埥埦埧埨埩埪埫埬埭埮埯埰埱埲埳埴埵埶執埸培基埻埼埽埾埿墀墁墂境墄墅墆墇墈墉墊墋墌墍墎墏墐墑墒墓墔墕墖増墘墙墚墛墜墝增墟墠墡墢墣墤墥墦墧墨墩墪墫墬墭墮墯墰墱墲墳墴墵墶墷墸墹墺墻墼墽墾墿壀壁壂壃壄壅壆壇壈壉壊壋壌壍壎壏壐壑壒壓壔壕壖壗壘壙壚壛壜壝壞壟壠壡壢壣壤壥壦壧壨壩壪士壬壭壮壯声壱売壳壴壵壶壷壸壹壺壻壼壽壾壿妀妁如妃妄妅妆妇妈妉妊妋妌妍妎妏妐妑妒妓妔妕妖妗妘妙妚妛妜妝妞妟妠妡妢妣妤妥妦妧妨妩妪妫妬妭妮妯妰妱妲妳妴妵妶妷妸妹妺妻妼妽妾妿姀姁姂姃姄姅姆姇姈姉姊始姌姍姎姏姐姑姒姓委姕姖姗姘姙姚姛姜姝姞姟姠姡姢姣姤姥姦姧姨姩姪姫姬姭姮姯姰姱姲姳姴姵姶姷姸姹姺姻姼姽姾姿媀媁媂媃媄媅媆媇媈媉媊媋媌媍媎媏媐媑媒媓媔媕媖媗媘媙媚媛媜媝媞媟媠媡媢媣媤媥媦媧媨媩媪媫媬媭媮媯媰媱媲媳媴媵媶媷媸媹媺媻媼媽媾媿嫀嫁嫂嫃嫄嫅嫆嫇嫈嫉嫊嫋嫌嫍嫎嫏嫐嫑嫒嫓嫔嫕嫖嫗嫘嫙嫚嫛嫜嫝嫞嫟嫠嫡嫢嫣嫤嫥嫦嫧嫨嫩嫪嫫嫬嫭嫮嫯嫰嫱嫲嫳嫴嫵嫶嫷嫸嫹嫺嫻嫼嫽嫾嫿宀宁宂它宄宅宆宇守安宊宋完宍宎宏宐宑宒宓宔宕宖宗官宙定宛宜宝实実宠审客宣室宥宦宧宨宩宪宫宬宭宮宯宰宱宲害宴宵家宷宸容宺宻宼宽宾宿寀寁寂寃寄寅密寇寈寉寊寋富寍寎寏寐寑寒寓寔寕寖寗寘寙寚寛寜寝寞察寠寡寢寣寤寥實寧寨審寪寫寬寭寮寯寰寱寲寳寴寵寶寷寸对寺寻导寽対寿岀岁岂岃岄岅岆岇岈岉岊岋岌岍岎岏岐岑岒岓岔岕岖岗岘岙岚岛岜岝岞岟岠岡岢岣岤岥岦岧岨岩岪岫岬岭岮岯岰岱岲岳岴岵岶岷岸岹岺岻岼岽岾岿峀峁峂峃峄峅峆峇峈峉峊峋峌峍峎峏峐峑峒峓峔峕峖峗峘峙峚峛峜峝峞峟峠峡峢峣峤峥峦峧峨峩峪峫峬峭峮峯峰峱峲峳峴峵島峷峸峹峺峻峼峽峾峿嶀嶁嶂嶃嶄嶅嶆嶇嶈嶉嶊嶋嶌嶍嶎嶏嶐嶑嶒嶓嶔嶕嶖嶗嶘嶙嶚嶛嶜嶝嶞嶟嶠嶡嶢嶣嶤嶥嶦嶧嶨嶩嶪嶫嶬嶭嶮嶯嶰嶱嶲嶳嶴嶵嶶嶷嶸嶹嶺嶻嶼嶽嶾嶿巀巁巂巃巄巅巆巇巈巉巊巋巌巍巎巏巐巑巒巓巔巕巖巗巘巙巚巛巜川州巟巠巡巢巣巤工左巧巨巩巪巫巬巭差巯巰己已巳巴巵巶巷巸巹巺巻巼巽巾巿庀庁庂広庄庅庆庇庈庉床庋庌庍庎序庐庑庒库应底庖店庘庙庚庛府庝庞废庠庡庢庣庤庥度座庨庩庪庫庬庭庮庯庰庱庲庳庴庵庶康庸庹庺庻庼庽庾庿廀廁廂廃廄廅廆廇廈廉廊廋廌廍廎廏廐廑廒廓廔廕廖廗廘廙廚廛廜廝廞廟廠廡廢廣廤廥廦廧廨廩廪廫廬廭廮廯廰廱廲廳廴廵延廷廸廹建廻廼廽廾廿往征徂徃径待徆徇很徉徊律後徍徎徏徐徑徒従徔徕徖得徘徙徚徛徜徝從徟徠御徢徣徤徥徦徧徨復循徫徬徭微徯徰徱徲徳徴徵徶德徸徹徺徻徼徽徾徿忀忁忂心忄必忆忇忈忉忊忋忌忍忎忏忐忑忒忓忔忕忖志忘忙忚忛応忝忞忟忠忡忢忣忤忥忦忧忨忩忪快忬忭忮忯忰忱忲忳忴念忶忷忸忹忺忻忼忽忾忿悀悁悂悃悄悅悆悇悈悉悊悋悌悍悎悏悐悑悒悓悔悕悖悗悘悙悚悛悜悝悞悟悠悡悢患悤悥悦悧您悩悪悫悬悭悮悯悰悱悲悳悴悵悶悷悸悹悺悻悼悽悾悿惀惁惂惃惄情惆惇惈惉惊惋惌惍惎惏惐惑惒惓惔惕惖惗惘惙惚惛惜惝惞惟惠惡惢惣惤惥惦惧惨惩惪惫惬惭惮惯惰惱惲想惴惵惶惷惸惹惺惻惼惽惾惿憀憁憂憃憄憅憆憇憈憉憊憋憌憍憎憏憐憑憒憓憔憕憖憗憘憙憚憛憜憝憞憟憠憡憢憣憤憥憦憧憨憩憪憫憬憭憮憯憰憱憲憳憴憵憶憷憸憹憺憻憼憽憾憿懀懁懂懃懄懅懆懇懈應懊懋懌懍懎懏懐懑懒懓懔懕懖懗懘懙懚懛懜懝懞懟懠懡懢懣懤懥懦懧懨懩懪懫懬懭懮懯懰懱懲懳懴懵懶懷懸懹懺懻懼懽懾懿技抁抂抃抄抅抆抇抈抉把抋抌抍抎抏抐抑抒抓抔投抖抗折抙抚抛抜抝択抟抠抡抢抣护报抦抧抨抩抪披抬抭抮抯抰抱抲抳抴抵抶抷抸抹抺抻押抽抾抿拀拁拂拃拄担拆拇拈拉拊拋拌拍拎拏拐拑拒拓拔拕拖拗拘拙拚招拜拝拞拟拠拡拢拣拤拥拦拧拨择拪拫括拭拮拯拰拱拲拳拴拵拶拷拸拹拺拻拼拽拾拿掀掁掂掃掄掅掆掇授掉掊掋掌掍掎掏掐掑排掓掔掕掖掗掘掙掚掛掜掝掞掟掠採探掣掤接掦控推掩措掫掬掭掮掯掰掱掲掳掴掵掶掷掸掹掺掻掼掽掾掿揀揁揂揃揄揅揆揇揈揉揊揋揌揍揎描提揑插揓揔揕揖揗揘揙揚換揜揝揞揟揠握揢揣揤揥揦揧揨揩揪揫揬揭揮揯揰揱揲揳援揵揶揷揸揹揺揻揼揽揾揿撀撁撂撃撄撅撆撇撈撉撊撋撌撍撎撏撐撑撒撓撔撕撖撗撘撙撚撛撜撝撞撟撠撡撢撣撤撥撦撧撨撩撪撫撬播撮撯撰撱撲撳撴撵撶撷撸撹撺撻撼撽撾撿擀擁擂擃擄擅擆擇擈擉擊擋擌操擎擏擐擑擒擓擔擕擖擗擘擙據擛擜擝擞擟擠擡擢擣擤擥擦擧擨擩擪擫擬擭擮擯擰擱擲擳擴擵擶擷擸擹擺擻擼擽擾擿斀斁斂斃斄斅斆文斈斉斊斋斌斍斎斏斐斑斒斓斔斕斖斗斘料斚斛斜斝斞斟斠斡斢斣斤斥斦斧斨斩斪斫斬断斮斯新斱斲斳斴斵斶斷斸方斺斻於施斾斿旀旁旂旃旄旅旆旇旈旉旊旋旌旍旎族旐旑旒旓旔旕旖旗旘旙旚旛旜旝旞旟无旡既旣旤日旦旧旨早旪旫旬旭旮旯旰旱旲旳旴旵时旷旸旹旺旻旼旽旾旿暀暁暂暃暄暅暆暇暈暉暊暋暌暍暎暏暐暑暒暓暔暕暖暗暘暙暚暛暜暝暞暟暠暡暢暣暤暥暦暧暨暩暪暫暬暭暮暯暰暱暲暳暴暵暶暷暸暹暺暻暼暽暾暿曀曁曂曃曄曅曆曇曈曉曊曋曌曍曎曏曐曑曒曓曔曕曖曗曘曙曚曛曜曝曞曟曠曡曢曣曤曥曦曧曨曩曪曫曬曭曮曯曰曱曲曳更曵曶曷書曹曺曻曼曽曾替枀极枂枃构枅枆枇枈枉枊枋枌枍枎枏析枑枒枓枔枕枖林枘枙枚枛果枝枞枟枠枡枢枣枤枥枦枧枨枩枪枫枬枭枮枯枰枱枲枳枴枵架枷枸枹枺枻枼枽枾枿柀柁柂柃柄柅柆柇柈柉柊柋柌柍柎柏某柑柒染柔柕柖柗柘柙柚柛柜柝柞柟柠柡柢柣柤查柦柧柨柩柪柫柬柭柮柯柰柱柲柳柴柵柶柷柸柹柺査柼柽柾柿梀梁梂梃梄梅梆梇梈梉梊梋梌梍梎梏梐梑梒梓梔梕梖梗梘梙梚梛梜條梞梟梠梡梢梣梤梥梦梧梨梩梪梫梬梭梮梯械梱梲梳梴梵梶梷梸梹梺梻梼梽梾梿检棁棂棃棄棅棆棇棈棉棊棋棌棍棎棏棐棑棒棓棔棕棖棗棘棙棚棛棜棝棞棟棠棡棢棣棤棥棦棧棨棩棪棫棬棭森棯棰棱棲棳棴棵棶棷棸棹棺棻棼棽棾棿榀榁概榃榄榅榆榇榈榉榊榋榌榍榎榏榐榑榒榓榔榕榖榗榘榙榚榛榜榝榞榟榠榡榢榣榤榥榦榧榨榩榪榫榬榭榮榯榰榱榲榳榴榵榶榷榸榹榺榻榼榽榾榿槀槁槂槃槄槅槆槇槈槉槊構槌槍槎槏槐槑槒槓槔槕槖槗様槙槚槛槜槝槞槟槠槡槢槣槤槥槦槧槨槩槪槫槬槭槮槯槰槱槲槳槴槵槶槷槸槹槺槻槼槽槾槿檀檁檂檃檄檅檆檇檈檉檊檋檌檍檎檏檐檑檒檓檔檕檖檗檘檙檚檛檜檝檞檟檠檡檢檣檤檥檦檧檨檩檪檫檬檭檮檯檰檱檲檳檴檵檶檷檸檹檺檻檼檽檾檿櫀櫁櫂櫃櫄櫅櫆櫇櫈櫉櫊櫋櫌櫍櫎櫏櫐櫑櫒櫓櫔櫕櫖櫗櫘櫙櫚櫛櫜櫝櫞櫟櫠櫡櫢櫣櫤櫥櫦櫧櫨櫩櫪櫫櫬櫭櫮櫯櫰櫱櫲櫳櫴櫵櫶櫷櫸櫹櫺櫻櫼櫽櫾櫿殀殁殂殃殄殅殆殇殈殉殊残殌殍殎殏殐殑殒殓殔殕殖殗殘殙殚殛殜殝殞殟殠殡殢殣殤殥殦殧殨殩殪殫殬殭殮殯殰殱殲殳殴段殶殷殸殹殺殻殼殽殾殿毀毁毂毃毄毅毆毇毈毉毊毋毌母毎每毐毑毒毓比毕毖毗毘毙毚毛毜毝毞毟毠毡毢毣毤毥毦毧毨毩毪毫毬毭毮毯毰毱毲毳毴毵毶毷毸毹毺毻毼毽毾毿沀沁沂沃沄沅沆沇沈沉沊沋沌沍沎沏沐沑沒沓沔沕沖沗沘沙沚沛沜沝沞沟沠没沢沣沤沥沦沧沨沩沪沫沬沭沮沯沰沱沲河沴沵沶沷沸油沺治沼沽沾沿泀況泂泃泄泅泆泇泈泉泊泋泌泍泎泏泐泑泒泓泔法泖泗泘泙泚泛泜泝泞泟泠泡波泣泤泥泦泧注泩泪泫泬泭泮泯泰泱泲泳泴泵泶泷泸泹泺泻泼泽泾泿涀涁涂涃涄涅涆涇消涉涊涋涌涍涎涏涐涑涒涓涔涕涖涗涘涙涚涛涜涝涞涟涠涡涢涣涤涥润涧涨涩涪涫涬涭涮涯涰涱液涳涴涵涶涷涸涹涺涻涼涽涾涿淀淁淂淃淄淅淆淇淈淉淊淋淌淍淎淏淐淑淒淓淔淕淖淗淘淙淚淛淜淝淞淟淠淡淢淣淤淥淦淧淨淩淪淫淬淭淮淯淰深淲淳淴淵淶混淸淹淺添淼淽淾淿満溁溂溃溄溅溆溇溈溉溊溋溌溍溎溏源溑溒溓溔溕準溗溘溙溚溛溜溝溞溟溠溡溢溣溤溥溦溧溨溩溪溫溬溭溮溯溰溱溲溳溴溵溶溷溸溹溺溻溼溽溾溿滀滁滂滃滄滅滆滇滈滉滊滋滌滍滎滏滐滑滒滓滔滕滖滗滘滙滚滛滜滝滞滟滠满滢滣滤滥滦滧滨滩滪滫滬滭滮滯滰滱滲滳滴滵滶滷滸滹滺滻滼滽滾滿澀澁澂澃澄澅澆澇澈澉澊澋澌澍澎澏澐澑澒澓澔澕澖澗澘澙澚澛澜澝澞澟澠澡澢澣澤澥澦澧澨澩澪澫澬澭澮澯澰澱澲澳澴澵澶澷澸澹澺澻澼澽澾澿激濁濂濃濄濅濆濇濈濉濊濋濌濍濎濏濐濑濒濓濔濕濖濗濘濙濚濛濜濝濞濟濠濡濢濣濤濥濦濧濨濩濪濫濬濭濮濯濰濱濲濳濴濵濶濷濸濹濺濻濼濽濾濿炀炁炂炃炄炅炆炇炈炉炊炋炌炍炎炏炐炑炒炓炔炕炖炗炘炙炚炛炜炝炞炟炠炡炢炣炤炥炦炧炨炩炪炫炬炭炮炯炰炱炲炳炴炵炶炷炸点為炻炼炽炾炿烀烁烂烃烄烅烆烇烈烉烊烋烌烍烎烏烐烑烒烓烔烕烖烗烘烙烚烛烜烝烞烟烠烡烢烣烤烥烦烧烨烩烪烫烬热烮烯烰烱烲烳烴烵烶烷烸烹烺烻烼烽烾烿熀熁熂熃熄熅熆熇熈熉熊熋熌熍熎熏熐熑熒熓熔熕熖熗熘熙熚熛熜熝熞熟熠熡熢熣熤熥熦熧熨熩熪熫熬熭熮熯熰熱熲熳熴熵熶熷熸熹熺熻熼熽熾熿燀燁燂燃燄燅燆燇燈燉燊燋燌燍燎燏燐燑燒燓燔燕燖燗燘燙燚燛燜燝燞營燠燡燢燣燤燥燦燧燨燩燪燫燬燭燮燯燰燱燲燳燴燵燶燷燸燹燺燻燼燽燾燿犀犁犂犃犄犅犆犇犈犉犊犋犌犍犎犏犐犑犒犓犔犕犖犗犘犙犚犛犜犝犞犟犠犡犢犣犤犥犦犧犨犩犪犫犬犭犮犯犰犱犲犳犴犵状犷犸犹犺犻犼犽犾犿狀狁狂狃狄狅狆狇狈狉狊狋狌狍狎狏狐狑狒狓狔狕狖狗狘狙狚狛狜狝狞狟狠狡狢狣狤狥狦狧狨狩狪狫独狭狮狯狰狱狲狳狴狵狶狷狸狹狺狻狼狽狾狿玀玁玂玃玄玅玆率玈玉玊王玌玍玎玏玐玑玒玓玔玕玖玗玘玙玚玛玜玝玞玟玠玡玢玣玤玥玦玧玨玩玪玫玬玭玮环现玱玲玳玴玵玶玷玸玹玺玻玼玽玾玿珀珁珂珃珄珅珆珇珈珉珊珋珌珍珎珏珐珑珒珓珔珕珖珗珘珙珚珛珜珝珞珟珠珡珢珣珤珥珦珧珨珩珪珫珬班珮珯珰珱珲珳珴珵珶珷珸珹珺珻珼珽現珿璀璁璂璃璄璅璆璇璈璉璊璋璌璍璎璏璐璑璒璓璔璕璖璗璘璙璚璛璜璝璞璟璠璡璢璣璤璥璦璧璨璩璪璫璬璭璮璯環璱璲璳璴璵璶璷璸璹璺璻璼璽璾璿瓀瓁瓂瓃瓄瓅瓆瓇瓈瓉瓊瓋瓌瓍瓎瓏瓐瓑瓒瓓瓔瓕瓖瓗瓘瓙瓚瓛瓜瓝瓞瓟瓠瓡瓢瓣瓤瓥瓦瓧瓨瓩瓪瓫瓬瓭瓮瓯瓰瓱瓲瓳瓴瓵瓶瓷瓸瓹瓺瓻瓼瓽瓾瓿疀疁疂疃疄疅疆疇疈疉疊疋疌疍疎疏疐疑疒疓疔疕疖疗疘疙疚疛疜疝疞疟疠疡疢疣疤疥疦疧疨疩疪疫疬疭疮疯疰疱疲疳疴疵疶疷疸疹疺疻疼疽疾疿痀痁痂痃痄病痆症痈痉痊痋痌痍痎痏痐痑痒痓痔痕痖痗痘痙痚痛痜痝痞痟痠痡痢痣痤痥痦痧痨痩痪痫痬痭痮痯痰痱痲痳痴痵痶痷痸痹痺痻痼痽痾痿皀皁皂皃的皅皆皇皈皉皊皋皌皍皎皏皐皑皒皓皔皕皖皗皘皙皚皛皜皝皞皟皠皡皢皣皤皥皦皧皨皩皪皫皬皭皮皯皰皱皲皳皴皵皶皷皸皹皺皻皼皽皾皿盀盁盂盃盄盅盆盇盈盉益盋盌盍盎盏盐监盒盓盔盕盖盗盘盙盚盛盜盝盞盟盠盡盢監盤盥盦盧盨盩盪盫盬盭目盯盰盱盲盳直盵盶盷相盹盺盻盼盽盾盿瞀瞁瞂瞃瞄瞅瞆瞇瞈瞉瞊瞋瞌瞍瞎瞏瞐瞑瞒瞓瞔瞕瞖瞗瞘瞙瞚瞛瞜瞝瞞瞟瞠瞡瞢瞣瞤瞥瞦瞧瞨瞩瞪瞫瞬瞭瞮瞯瞰瞱瞲瞳瞴瞵瞶瞷瞸瞹瞺瞻瞼瞽瞾瞿矀矁矂矃矄矅矆矇矈矉矊矋矌矍矎矏矐矑矒矓矔矕矖矗矘矙矚矛矜矝矞矟矠矡矢矣矤知矦矧矨矩矪矫矬短矮矯矰矱矲石矴矵矶矷矸矹矺矻矼矽矾矿碀碁碂碃碄碅碆碇碈碉碊碋碌碍碎碏碐碑碒碓碔碕碖碗碘碙碚碛碜碝碞碟碠碡碢碣碤碥碦碧碨碩碪碫碬碭碮碯碰碱碲碳碴碵碶碷碸碹確碻碼碽碾碿磀磁磂磃磄磅磆磇磈磉磊磋磌磍磎磏磐磑磒磓磔磕磖磗磘磙磚磛磜磝磞磟磠磡磢磣磤磥磦磧磨磩磪磫磬磭磮磯磰磱磲磳磴磵磶磷磸磹磺磻磼磽磾磿禀禁禂禃禄禅禆禇禈禉禊禋禌禍禎福禐禑禒禓禔禕禖禗禘禙禚禛禜禝禞禟禠禡禢禣禤禥禦禧禨禩禪禫禬禭禮禯禰禱禲禳禴禵禶禷禸禹禺离禼禽禾禿秀私秂秃秄秅秆秇秈秉秊秋秌种秎秏秐科秒秓秔秕秖秗秘秙秚秛秜秝秞租秠秡秢秣秤秥秦秧秨秩秪秫秬秭秮积称秱秲秳秴秵秶秷秸秹秺移秼秽秾秿窀突窂窃窄窅窆窇窈窉窊窋窌窍窎窏窐窑窒窓窔窕窖窗窘窙窚窛窜窝窞窟窠窡窢窣窤窥窦窧窨窩窪窫窬窭窮窯窰窱窲窳窴窵窶窷窸窹窺窻窼窽窾窿竀竁竂竃竄竅竆竇竈竉竊立竌竍竎竏竐竑竒竓竔竕竖竗竘站竚竛竜竝竞竟章竡竢竣竤童竦竧竨竩竪竫竬竭竮端竰竱竲竳竴竵競竷竸竹竺竻竼竽竾竿简箁箂箃箄箅箆箇箈箉箊箋箌箍箎箏箐箑箒箓箔箕箖算箘箙箚箛箜箝箞箟箠管箢箣箤箥箦箧箨箩箪箫箬箭箮箯箰箱箲箳箴箵箶箷箸箹箺箻箼箽箾箿節篁篂篃範篅篆篇篈築篊篋篌篍篎篏篐篑篒篓篔篕篖篗篘篙篚篛篜篝篞篟篠篡篢篣篤篥篦篧篨篩篪篫篬篭篮篯篰篱篲篳篴篵篶篷篸篹篺篻篼篽篾篿粀粁粂粃粄粅粆粇粈粉粊粋粌粍粎粏粐粑粒粓粔粕粖粗粘粙粚粛粜粝粞粟粠粡粢粣粤粥粦粧粨粩粪粫粬粭粮粯粰粱粲粳粴粵粶粷粸粹粺粻粼粽精粿糀糁糂糃糄糅糆糇糈糉糊糋糌糍糎糏糐糑糒糓糔糕糖糗糘糙糚糛糜糝糞糟糠糡糢糣糤糥糦糧糨糩糪糫糬糭糮糯糰糱糲糳糴糵糶糷糸糹糺系糼糽糾糿綀綁綂綃綄綅綆綇綈綉綊綋綌綍綎綏綐綑綒經綔綕綖綗綘継続綛綜綝綞綟綠綡綢綣綤綥綦綧綨綩綪綫綬維綮綯綰綱網綳綴綵綶綷綸綹綺綻綼綽綾綿緀緁緂緃緄緅緆緇緈緉緊緋緌緍緎総緐緑緒緓緔緕緖緗緘緙線緛緜緝緞緟締緡緢緣緤緥緦緧編緩緪緫緬緭緮緯緰緱緲緳練緵緶緷緸緹緺緻緼緽緾緿纀纁纂纃纄纅纆纇纈纉纊纋續纍纎纏纐纑纒纓纔纕纖纗纘纙纚纛纜纝纞纟纠纡红纣纤纥约级纨纩纪纫纬纭纮纯纰纱纲纳纴纵纶纷纸纹纺纻纼纽纾线绀绁绂练组绅细织终绉绊绋绌绍绎经绐绑绒结绔绕绖绗绘给绚绛络绝绞统绠绡绢绣绤绥绦继绨绩绪绫绬续绮绯绰绱绲绳维绵绶绷绸绹绺绻综绽绾绿羀羁羂羃羄羅羆羇羈羉羊羋羌羍美羏羐羑羒羓羔羕羖羗羘羙羚羛羜羝羞羟羠羡羢羣群羥羦羧羨義羪羫羬羭羮羯羰羱羲羳羴羵羶羷羸羹羺羻羼羽羾羿翀翁翂翃翄翅翆翇翈翉翊翋翌翍翎翏翐翑習翓翔翕翖翗翘翙翚翛翜翝翞翟翠翡翢翣翤翥翦翧翨翩翪翫翬翭翮翯翰翱翲翳翴翵翶翷翸翹翺翻翼翽翾翿肀肁肂肃肄肅肆肇肈肉肊肋肌肍肎肏肐肑肒肓肔肕肖肗肘肙肚肛肜肝肞肟肠股肢肣肤肥肦肧肨肩肪肫肬肭肮肯肰肱育肳肴肵肶肷肸肹肺肻肼肽肾肿胀胁胂胃胄胅胆胇胈胉胊胋背胍胎胏胐胑胒胓胔胕胖胗胘胙胚胛胜胝胞胟胠胡胢胣胤胥胦胧胨胩胪胫胬胭胮胯胰胱胲胳胴胵胶胷胸胹胺胻胼能胾胿膀膁膂膃膄膅膆膇膈膉膊膋膌膍膎膏膐膑膒膓膔膕膖膗膘膙膚膛膜膝膞膟膠膡膢膣膤膥膦膧膨膩膪膫膬膭膮膯膰膱膲膳膴膵膶膷膸膹膺膻膼膽膾膿臀臁臂臃臄臅臆臇臈臉臊臋臌臍臎臏臐臑臒臓臔臕臖臗臘臙臚臛臜臝臞臟臠臡臢臣臤臥臦臧臨臩自臫臬臭臮臯臰臱臲至致臵臶臷臸臹臺臻臼臽臾臿芀芁节芃芄芅芆芇芈芉芊芋芌芍芎芏芐芑芒芓芔芕芖芗芘芙芚芛芜芝芞芟芠芡芢芣芤芥芦芧芨芩芪芫芬芭芮芯芰花芲芳芴芵芶芷芸芹芺芻芼芽芾芿苀苁苂苃苄苅苆苇苈苉苊苋苌苍苎苏苐苑苒苓苔苕苖苗苘苙苚苛苜苝苞苟苠苡苢苣苤若苦苧苨苩苪苫苬苭苮苯苰英苲苳苴苵苶苷苸苹苺苻苼苽苾苿莀莁莂莃莄莅莆莇莈莉莊莋莌莍莎莏莐莑莒莓莔莕莖莗莘莙莚莛莜莝莞莟莠莡莢莣莤莥莦莧莨莩莪莫莬莭莮莯莰莱莲莳莴莵莶获莸莹莺莻莼莽莾莿菀菁菂菃菄菅菆菇菈菉菊菋菌菍菎菏菐菑菒菓菔菕菖菗菘菙菚菛菜菝菞菟菠菡菢菣菤菥菦菧菨菩菪菫菬菭菮華菰菱菲菳菴菵菶菷菸菹菺菻菼菽菾菿蒀蒁蒂蒃蒄蒅蒆蒇蒈蒉蒊蒋蒌蒍蒎蒏蒐蒑蒒蒓蒔蒕蒖蒗蒘蒙蒚蒛蒜蒝蒞蒟蒠蒡蒢蒣蒤蒥蒦蒧蒨蒩蒪蒫蒬蒭蒮蒯蒰蒱蒲蒳蒴蒵蒶蒷蒸蒹蒺蒻蒼蒽蒾蒿蓀蓁蓂蓃蓄蓅蓆蓇蓈蓉蓊蓋蓌蓍蓎蓏蓐蓑蓒蓓蓔蓕蓖蓗蓘蓙蓚蓛蓜蓝蓞蓟蓠蓡蓢蓣蓤蓥蓦蓧蓨蓩蓪蓫蓬蓭蓮蓯蓰蓱蓲蓳蓴蓵蓶蓷蓸蓹蓺蓻蓼蓽蓾蓿薀薁薂薃薄薅薆薇薈薉薊薋薌薍薎薏薐薑薒薓薔薕薖薗薘薙薚薛薜薝薞薟薠薡薢薣薤薥薦薧薨薩薪薫薬薭薮薯薰薱薲薳薴薵薶薷薸薹薺薻薼薽薾薿藀藁藂藃藄藅藆藇藈藉藊藋藌藍藎藏藐藑藒藓藔藕藖藗藘藙藚藛藜藝藞藟藠藡藢藣藤藥藦藧藨藩藪藫藬藭藮藯藰藱藲藳藴藵藶藷藸藹藺藻藼藽藾藿蚀蚁蚂蚃蚄蚅蚆蚇蚈蚉蚊蚋蚌蚍蚎蚏蚐蚑蚒蚓蚔蚕蚖蚗蚘蚙蚚蚛蚜蚝蚞蚟蚠蚡蚢蚣蚤蚥蚦蚧蚨蚩蚪蚫蚬蚭蚮蚯蚰蚱蚲蚳蚴蚵蚶蚷蚸蚹蚺蚻蚼蚽蚾蚿蛀蛁蛂蛃蛄蛅蛆蛇蛈蛉蛊蛋蛌蛍蛎蛏蛐蛑蛒蛓蛔蛕蛖蛗蛘蛙蛚蛛蛜蛝蛞蛟蛠蛡蛢蛣蛤蛥蛦蛧蛨蛩蛪蛫蛬蛭蛮蛯蛰蛱蛲蛳蛴蛵蛶蛷蛸蛹蛺蛻蛼蛽蛾蛿螀螁螂螃螄螅螆螇螈螉螊螋螌融螎螏螐螑螒螓螔螕螖螗螘螙螚螛螜螝螞螟螠螡螢螣螤螥螦螧螨螩螪螫螬螭螮螯螰螱螲螳螴螵螶螷螸螹螺螻螼螽螾螿蟀蟁蟂蟃蟄蟅蟆蟇蟈蟉蟊蟋蟌蟍蟎蟏蟐蟑蟒蟓蟔蟕蟖蟗蟘蟙蟚蟛蟜蟝蟞蟟蟠蟡蟢蟣蟤蟥蟦蟧蟨蟩蟪蟫蟬蟭蟮蟯蟰蟱蟲蟳蟴蟵蟶蟷蟸蟹蟺蟻蟼蟽蟾蟿袀袁袂袃袄袅袆袇袈袉袊袋袌袍袎袏袐袑袒袓袔袕袖袗袘袙袚袛袜袝袞袟袠袡袢袣袤袥袦袧袨袩袪被袬袭袮袯袰袱袲袳袴袵袶袷袸袹袺袻袼袽袾袿裀裁裂裃裄装裆裇裈裉裊裋裌裍裎裏裐裑裒裓裔裕裖裗裘裙裚裛補裝裞裟裠裡裢裣裤裥裦裧裨裩裪裫裬裭裮裯裰裱裲裳裴裵裶裷裸裹裺裻裼製裾裿覀要覂覃覄覅覆覇覈覉覊見覌覍覎規覐覑覒覓覔覕視覗覘覙覚覛覜覝覞覟覠覡覢覣覤覥覦覧覨覩親覫覬覭覮覯覰覱覲観覴覵覶覷覸覹覺覻覼覽覾覿觀见观觃规觅视觇览觉觊觋觌觍觎觏觐觑角觓觔觕觖觗觘觙觚觛觜觝觞觟觠觡觢解觤觥触觧觨觩觪觫觬觭觮觯觰觱觲觳觴觵觶觷觸觹觺觻觼觽觾觿誀誁誂誃誄誅誆誇誈誉誊誋誌認誎誏誐誑誒誓誔誕誖誗誘誙誚誛誜誝語誟誠誡誢誣誤誥誦誧誨誩說誫説読誮誯誰誱課誳誴誵誶誷誸誹誺誻誼誽誾調諀諁諂諃諄諅諆談諈諉諊請諌諍諎諏諐諑諒諓諔諕論諗諘諙諚諛諜諝諞諟諠諡諢諣諤諥諦諧諨諩諪諫諬諭諮諯諰諱諲諳諴諵諶諷諸諹諺諻諼諽諾諿讀讁讂讃讄讅讆讇讈讉變讋讌讍讎讏讐讑讒讓讔讕讖讗讘讙讚讛讜讝讞讟讠计订讣认讥讦讧讨让讪讫讬训议讯记讱讲讳讴讵讶讷许讹论讻讼讽设访诀证诂诃评诅识诇诈诉诊诋诌词诎诏诐译诒诓诔试诖诗诘诙诚诛诜话诞诟诠诡询诣诤该详诧诨诩诪诫诬语诮误诰诱诲诳说诵诶请诸诹诺读诼诽课诿貀貁貂貃貄貅貆貇貈貉貊貋貌貍貎貏貐貑貒貓貔貕貖貗貘貙貚貛貜貝貞貟負財貢貣貤貥貦貧貨販貪貫責貭貮貯貰貱貲貳貴貵貶買貸貹貺費貼貽貾貿賀賁賂賃賄賅賆資賈賉賊賋賌賍賎賏賐賑賒賓賔賕賖賗賘賙賚賛賜賝賞賟賠賡賢賣賤賥賦賧賨賩質賫賬賭賮賯賰賱賲賳賴賵賶賷賸賹賺賻購賽賾賿趀趁趂趃趄超趆趇趈趉越趋趌趍趎趏趐趑趒趓趔趕趖趗趘趙趚趛趜趝趞趟趠趡趢趣趤趥趦趧趨趩趪趫趬趭趮趯趰趱趲足趴趵趶趷趸趹趺趻趼趽趾趿跀跁跂跃跄跅跆跇跈跉跊跋跌跍跎跏跐跑跒跓跔跕跖跗跘跙跚跛跜距跞跟跠跡跢跣跤跥跦跧跨跩跪跫跬跭跮路跰跱跲跳跴践跶跷跸跹跺跻跼跽跾跿躀躁躂躃躄躅躆躇躈躉躊躋躌躍躎躏躐躑躒躓躔躕躖躗躘躙躚躛躜躝躞躟躠躡躢躣躤躥躦躧躨躩躪身躬躭躮躯躰躱躲躳躴躵躶躷躸躹躺躻躼躽躾躿軀軁軂軃軄軅軆軇軈軉車軋軌軍軎軏軐軑軒軓軔軕軖軗軘軙軚軛軜軝軞軟軠軡転軣軤軥軦軧軨軩軪軫軬軭軮軯軰軱軲軳軴軵軶軷軸軹軺軻軼軽軾軿辀辁辂较辄辅辆辇辈辉辊辋辌辍辎辏辐辑辒输辔辕辖辗辘辙辚辛辜辝辞辟辠辡辢辣辤辥辦辧辨辩辪辫辬辭辮辯辰辱農辳辴辵辶辷辸边辺辻込辽达辿迀迁迂迃迄迅迆过迈迉迊迋迌迍迎迏运近迒迓返迕迖迗还这迚进远违连迟迠迡迢迣迤迥迦迧迨迩迪迫迬迭迮迯述迱迲迳迴迵迶迷迸迹迺迻迼追迾迿邀邁邂邃還邅邆邇邈邉邊邋邌邍邎邏邐邑邒邓邔邕邖邗邘邙邚邛邜邝邞邟邠邡邢那邤邥邦邧邨邩邪邫邬邭邮邯邰邱邲邳邴邵邶邷邸邹邺邻邼邽邾邿郀郁郂郃郄郅郆郇郈郉郊郋郌郍郎郏郐郑郒郓郔郕郖郗郘郙郚郛郜郝郞郟郠郡郢郣郤郥郦郧部郩郪郫郬郭郮郯郰郱郲郳郴郵郶郷郸郹郺郻郼都郾郿醀醁醂醃醄醅醆醇醈醉醊醋醌醍醎醏醐醑醒醓醔醕醖醗醘醙醚醛醜醝醞醟醠醡醢醣醤醥醦醧醨醩醪醫醬醭醮醯醰醱醲醳醴醵醶醷醸醹醺醻醼醽醾醿釀釁釂釃釄釅釆采釈釉释釋里重野量釐金釒釓釔釕釖釗釘釙釚釛釜針釞釟釠釡釢釣釤釥釦釧釨釩釪釫釬釭釮釯釰釱釲釳釴釵釶釷釸釹釺釻釼釽釾釿銀銁銂銃銄銅銆銇銈銉銊銋銌銍銎銏銐銑銒銓銔銕銖銗銘銙銚銛銜銝銞銟銠銡銢銣銤銥銦銧銨銩銪銫銬銭銮銯銰銱銲銳銴銵銶銷銸銹銺銻銼銽銾銿鋀鋁鋂鋃鋄鋅鋆鋇鋈鋉鋊鋋鋌鋍鋎鋏鋐鋑鋒鋓鋔鋕鋖鋗鋘鋙鋚鋛鋜鋝鋞鋟鋠鋡鋢鋣鋤鋥鋦鋧鋨鋩鋪鋫鋬鋭鋮鋯鋰鋱鋲鋳鋴鋵鋶鋷鋸鋹鋺鋻鋼鋽鋾鋿鎀鎁鎂鎃鎄鎅鎆鎇鎈鎉鎊鎋鎌鎍鎎鎏鎐鎑鎒鎓鎔鎕鎖鎗鎘鎙鎚鎛鎜鎝鎞鎟鎠鎡鎢鎣鎤鎥鎦鎧鎨鎩鎪鎫鎬鎭鎮鎯鎰鎱鎲鎳鎴鎵鎶鎷鎸鎹鎺鎻鎼鎽鎾鎿鏀鏁鏂鏃鏄鏅鏆鏇鏈鏉鏊鏋鏌鏍鏎鏏鏐鏑鏒鏓鏔鏕鏖鏗鏘鏙鏚鏛鏜鏝鏞鏟鏠鏡鏢鏣鏤鏥鏦鏧鏨鏩鏪鏫鏬鏭鏮鏯鏰鏱鏲鏳鏴鏵鏶鏷鏸鏹鏺鏻鏼鏽鏾鏿钀钁钂钃钄钅钆钇针钉钊钋钌钍钎钏钐钑钒钓钔钕钖钗钘钙钚钛钜钝钞钟钠钡钢钣钤钥钦钧钨钩钪钫钬钭钮钯钰钱钲钳钴钵钶钷钸钹钺钻钼钽钾钿铀铁铂铃铄铅铆铇铈铉铊铋铌铍铎铏铐铑铒铓铔铕铖铗铘铙铚铛铜铝铞铟铠铡铢铣铤铥铦铧铨铩铪铫铬铭铮铯铰铱铲铳铴铵银铷铸铹铺铻铼铽链铿門閁閂閃閄閅閆閇閈閉閊開閌閍閎閏閐閑閒間閔閕閖閗閘閙閚閛閜閝閞閟閠閡関閣閤閥閦閧閨閩閪閫閬閭閮閯閰閱閲閳閴閵閶閷閸閹閺閻閼閽閾閿闀闁闂闃闄闅闆闇闈闉闊闋闌闍闎闏闐闑闒闓闔闕闖闗闘闙闚闛關闝闞闟闠闡闢闣闤闥闦闧门闩闪闫闬闭问闯闰闱闲闳间闵闶闷闸闹闺闻闼闽闾闿隀隁隂隃隄隅隆隇隈隉隊隋隌隍階随隐隑隒隓隔隕隖隗隘隙隚際障隝隞隟隠隡隢隣隤隥隦隧隨隩險隫隬隭隮隯隰隱隲隳隴隵隶隷隸隹隺隻隼隽难隿雀雁雂雃雄雅集雇雈雉雊雋雌雍雎雏雐雑雒雓雔雕雖雗雘雙雚雛雜雝雞雟雠雡離難雤雥雦雧雨雩雪雫雬雭雮雯雰雱雲雳雴雵零雷雸雹雺電雼雽雾雿鞀鞁鞂鞃鞄鞅鞆鞇鞈鞉鞊鞋鞌鞍鞎鞏鞐鞑鞒鞓鞔鞕鞖鞗鞘鞙鞚鞛鞜鞝鞞鞟鞠鞡鞢鞣鞤鞥鞦鞧鞨鞩鞪鞫鞬鞭鞮鞯鞰鞱鞲鞳鞴鞵鞶鞷鞸鞹鞺鞻鞼鞽鞾鞿韀韁韂韃韄韅韆韇韈韉韊韋韌韍韎韏韐韑韒韓韔韕韖韗韘韙韚韛韜韝韞韟韠韡韢韣韤韥韦韧韨韩韪韫韬韭韮韯韰韱韲音韴韵韶韷韸韹韺韻韼韽韾響颀颁颂颃预颅领颇颈颉颊颋颌颍颎颏颐频颒颓颔颕颖颗题颙颚颛颜额颞颟颠颡颢颣颤颥颦颧風颩颪颫颬颭颮颯颰颱颲颳颴颵颶颷颸颹颺颻颼颽颾颿飀飁飂飃飄飅飆飇飈飉飊飋飌飍风飏飐飑飒飓飔飕飖飗飘飙飚飛飜飝飞食飠飡飢飣飤飥飦飧飨飩飪飫飬飭飮飯飰飱飲飳飴飵飶飷飸飹飺飻飼飽飾飿馀馁馂馃馄馅馆馇馈馉馊馋馌馍馎馏馐馑馒馓馔馕首馗馘香馚馛馜馝馞馟馠馡馢馣馤馥馦馧馨馩馪馫馬馭馮馯馰馱馲馳馴馵馶馷馸馹馺馻馼馽馾馿駀駁駂駃駄駅駆駇駈駉駊駋駌駍駎駏駐駑駒駓駔駕駖駗駘駙駚駛駜駝駞駟駠駡駢駣駤駥駦駧駨駩駪駫駬駭駮駯駰駱駲駳駴駵駶駷駸駹駺駻駼駽駾駿骀骁骂骃骄骅骆骇骈骉骊骋验骍骎骏骐骑骒骓骔骕骖骗骘骙骚骛骜骝骞骟骠骡骢骣骤骥骦骧骨骩骪骫骬骭骮骯骰骱骲骳骴骵骶骷骸骹骺骻骼骽骾骿髀髁髂髃髄髅髆髇髈髉髊髋髌髍髎髏髐髑髒髓體髕髖髗高髙髚髛髜髝髞髟髠髡髢髣髤髥髦髧髨髩髪髫髬髭髮髯髰髱髲髳髴髵髶髷髸髹髺髻髼髽髾髿鮀鮁鮂鮃鮄鮅鮆鮇鮈鮉鮊鮋鮌鮍鮎鮏鮐鮑鮒鮓鮔鮕鮖鮗鮘鮙鮚鮛鮜鮝鮞鮟鮠鮡鮢鮣鮤鮥鮦鮧鮨鮩鮪鮫鮬鮭鮮鮯鮰鮱鮲鮳鮴鮵鮶鮷鮸鮹鮺鮻鮼鮽鮾鮿鯀鯁鯂鯃鯄鯅鯆鯇鯈鯉鯊鯋鯌鯍鯎鯏鯐鯑鯒鯓鯔鯕鯖鯗鯘鯙鯚鯛鯜鯝鯞鯟鯠鯡鯢鯣鯤鯥鯦鯧鯨鯩鯪鯫鯬鯭鯮鯯鯰鯱鯲鯳鯴鯵鯶鯷鯸鯹鯺鯻鯼鯽鯾鯿鲀鲁鲂鲃鲄鲅鲆鲇鲈鲉鲊鲋鲌鲍鲎鲏鲐鲑鲒鲓鲔鲕鲖鲗鲘鲙鲚鲛鲜鲝鲞鲟鲠鲡鲢鲣鲤鲥鲦鲧鲨鲩鲪鲫鲬鲭鲮鲯鲰鲱鲲鲳鲴鲵鲶鲷鲸鲹鲺鲻鲼鲽鲾鲿鳀鳁鳂鳃鳄鳅鳆鳇鳈鳉鳊鳋鳌鳍鳎鳏鳐鳑鳒鳓鳔鳕鳖鳗鳘鳙鳚鳛鳜鳝鳞鳟鳠鳡鳢鳣鳤鳥鳦鳧鳨鳩鳪鳫鳬鳭鳮鳯鳰鳱鳲鳳鳴鳵鳶鳷鳸鳹鳺鳻鳼鳽鳾鳿鶀鶁鶂鶃鶄鶅鶆鶇鶈鶉鶊鶋鶌鶍鶎鶏鶐鶑鶒鶓鶔鶕鶖鶗鶘鶙鶚鶛鶜鶝鶞鶟鶠鶡鶢鶣鶤鶥鶦鶧鶨鶩鶪鶫鶬鶭鶮鶯鶰鶱鶲鶳鶴鶵鶶鶷鶸鶹鶺鶻鶼鶽鶾鶿鷀鷁鷂鷃鷄鷅鷆鷇鷈鷉鷊鷋鷌鷍鷎鷏鷐鷑鷒鷓鷔鷕鷖鷗鷘鷙鷚鷛鷜鷝鷞鷟鷠鷡鷢鷣鷤鷥鷦鷧鷨鷩鷪鷫鷬鷭鷮鷯鷰鷱鷲鷳鷴鷵鷶鷷鷸鷹鷺鷻鷼鷽鷾鷿麀麁麂麃麄麅麆麇麈麉麊麋麌麍麎麏麐麑麒麓麔麕麖麗麘麙麚麛麜麝麞麟麠麡麢麣麤麥麦麧麨麩麪麫麬麭麮麯麰麱麲麳麴麵麶麷麸麹麺麻麼麽麾麿黀黁黂黃黄黅黆黇黈黉黊黋黌黍黎黏黐黑黒黓黔黕黖黗默黙黚黛黜黝點黟黠黡黢黣黤黥黦黧黨黩黪黫黬黭黮黯黰黱黲黳黴黵黶黷黸黹黺黻黼黽黾黿龀龁龂龃龄龅龆龇龈龉龊龋龌龍龎龏龐龑龒龓龔龕龖龗龘龙龚龛龜龝龞龟龠龡龢龣龤龥龦龧龨龩龪龫龬龭龮龯龰龱龲龳龴龵龶龷龸龹龺龻龼龽龾龿鿀鿁鿂鿃鿄鿅鿆鿇鿈鿉鿊鿋鿌鿍鿎鿏鿐鿑鿒鿓鿔鿕鿖鿗鿘鿙鿚鿛鿜鿝鿞鿟鿠鿡鿢鿣鿤鿥鿦鿧鿨鿩鿪鿫鿬鿭鿮鿯鿰鿱鿲鿳鿴鿵鿶鿷鿸鿹鿺鿻鿼鿽鿾鿿ꂀꂁꂂꂃꂄꂅꂆꂇꂈꂉꂊꂋꂌꂍꂎꂏꂐꂑꂒꂓꂔꂕꂖꂗꂘꂙꂚꂛꂜꂝꂞꂟꂠꂡꂢꂣꂤꂥꂦꂧꂨꂩꂪꂫꂬꂭꂮꂯꂰꂱꂲꂳꂴꂵꂶꂷꂸꂹꂺꂻꂼꂽꂾꂿꃀꃁꃂꃃꃄꃅꃆꃇꃈꃉꃊꃋꃌꃍꃎꃏꃐꃑꃒꃓꃔꃕꃖꃗꃘꃙꃚꃛꃜꃝꃞꃟꃠꃡꃢꃣꃤꃥꃦꃧꃨꃩꃪꃫꃬꃭꃮꃯꃰꃱꃲꃳꃴꃵꃶꃷꃸꃹꃺꃻꃼꃽꃾꃿꆀꆁꆂꆃꆄꆅꆆꆇꆈꆉꆊꆋꆌꆍꆎꆏꆐꆑꆒꆓꆔꆕꆖꆗꆘꆙꆚꆛꆜꆝꆞꆟꆠꆡꆢꆣꆤꆥꆦꆧꆨꆩꆪꆫꆬꆭꆮꆯꆰꆱꆲꆳꆴꆵꆶꆷꆸꆹꆺꆻꆼꆽꆾꆿꇀꇁꇂꇃꇄꇅꇆꇇꇈꇉꇊꇋꇌꇍꇎꇏꇐꇑꇒꇓꇔꇕꇖꇗꇘꇙꇚꇛꇜꇝꇞꇟꇠꇡꇢꇣꇤꇥꇦꇧꇨꇩꇪꇫꇬꇭꇮꇯꇰꇱꇲꇳꇴꇵꇶꇷꇸꇹꇺꇻꇼꇽꇾꇿꊀꊁꊂꊃꊄꊅꊆꊇꊈꊉꊊꊋꊌꊍꊎꊏꊐꊑꊒꊓꊔꊕꊖꊗꊘꊙꊚꊛꊜꊝꊞꊟꊠꊡꊢꊣꊤꊥꊦꊧꊨꊩꊪꊫꊬꊭꊮꊯꊰꊱꊲꊳꊴꊵꊶꊷꊸꊹꊺꊻꊼꊽꊾꊿꋀꋁꋂꋃꋄꋅꋆꋇꋈꋉꋊꋋꋌꋍꋎꋏꋐꋑꋒꋓꋔꋕꋖꋗꋘꋙꋚꋛꋜꋝꋞꋟꋠꋡꋢꋣꋤꋥꋦꋧꋨꋩꋪꋫꋬꋭꋮꋯꋰꋱꋲꋳꋴꋵꋶꋷꋸꋹꋺꋻꋼꋽꋾꋿꎀꎁꎂꎃꎄꎅꎆꎇꎈꎉꎊꎋꎌꎍꎎꎏꎐꎑꎒꎓꎔꎕꎖꎗꎘꎙꎚꎛꎜꎝꎞꎟꎠꎡꎢꎣꎤꎥꎦꎧꎨꎩꎪꎫꎬꎭꎮꎯꎰꎱꎲꎳꎴꎵꎶꎷꎸꎹꎺꎻꎼꎽꎾꎿꏀꏁꏂꏃꏄꏅꏆꏇꏈꏉꏊꏋꏌꏍꏎꏏꏐꏑꏒꏓꏔꏕꏖꏗꏘꏙꏚꏛꏜꏝꏞꏟꏠꏡꏢꏣꏤꏥꏦꏧꏨꏩꏪꏫꏬꏭꏮꏯꏰꏱꏲꏳꏴꏵꏶꏷꏸꏹꏺꏻꏼꏽꏾꏿꒀꒁꒂꒃꒄꒅꒆꒇꒈꒉꒊꒋꒌ꒍꒎꒏꒐꒑꒒꒓꒔꒕꒖꒗꒘꒙꒚꒛꒜꒝꒞꒟꒠꒡꒢꒣꒤꒥꒦꒧꒨꒩꒪꒫꒬꒭꒮꒯꒰꒱꒲꒳꒴꒵꒶꒷꒸꒹꒺꒻꒼꒽꒾꒿꓀꓁꓂꓃꓄꓅꓆꓇꓈꓉꓊꓋꓌꓍꓎꓏ꓐꓑꓒꓓꓔꓕꓖꓗꓘꓙꓚꓛꓜꓝꓞꓟꓠꓡꓢꓣꓤꓥꓦꓧꓨꓩꓪꓫꓬꓭꓮꓯꓰꓱꓲꓳꓴꓵꓶꓷꓸꓹꓺꓻꓼꓽ꓾꓿ꖀꖁꖂꖃꖄꖅꖆꖇꖈꖉꖊꖋꖌꖍꖎꖏꖐꖑꖒꖓꖔꖕꖖꖗꖘꖙꖚꖛꖜꖝꖞꖟꖠꖡꖢꖣꖤꖥꖦꖧꖨꖩꖪꖫꖬꖭꖮꖯꖰꖱꖲꖳꖴꖵꖶꖷꖸꖹꖺꖻꖼꖽꖾꖿꗀꗁꗂꗃꗄꗅꗆꗇꗈꗉꗊꗋꗌꗍꗎꗏꗐꗑꗒꗓꗔꗕꗖꗗꗘꗙꗚꗛꗜꗝꗞꗟꗠꗡꗢꗣꗤꗥꗦꗧꗨꗩꗪꗫꗬꗭꗮꗯꗰꗱꗲꗳꗴꗵꗶꗷꗸꗹꗺꗻꗼꗽꗾꗿꚀꚁꚂꚃꚄꚅꚆꚇꚈꚉꚊꚋꚌꚍꚎꚏꚐꚑꚒꚓꚔꚕꚖꚗꚘꚙꚚꚛꚜꚝꚞꚟꚠꚡꚢꚣꚤꚥꚦꚧꚨꚩꚪꚫꚬꚭꚮꚯꚰꚱꚲꚳꚴꚵꚶꚷꚸꚹꚺꚻꚼꚽꚾꚿꛀꛁꛂꛃꛄꛅꛆꛇꛈꛉꛊꛋꛌꛍꛎꛏꛐꛑꛒꛓꛔꛕꛖꛗꛘꛙꛚꛛꛜꛝꛞꛟꛠꛡꛢꛣꛤꛥꛦꛧꛨꛩꛪꛫꛬꛭꛮꛯ꛰꛱꛲꛳꛴꛵꛶꛷꛸꛹꛺꛻꛼꛽꛾꛿ꞀꞁꞂꞃꞄꞅꞆꞇꞈ꞉꞊ꞋꞌꞍꞎꞏꞐꞑꞒꞓꞔꞕꞖꞗꞘꞙꞚꞛꞜꞝꞞꞟꞠꞡꞢꞣꞤꞥꞦꞧꞨꞩꞪꞫꞬꞭꞮꞯꞰꞱꞲꞳꞴꞵꞶꞷꞸꞹꞺꞻꞼꞽꞾꞿꟀꟁꟂꟃꟄꟅꟆꟇꟈꟉꟊꟋꟌꟍ꟎꟏Ꟑꟑ꟒ꟓ꟔ꟕꟖꟗꟘꟙꟚꟛꟜ꟝꟞꟟꟠꟡꟢꟣꟤꟥꟦꟧꟨꟩꟪꟫꟬꟭꟮꟯꟰꟱ꟲꟳꟴꟵꟶꟷꟸꟹꟺꟻꟼꟽꟾꟿꢀꢁꢂꢃꢄꢅꢆꢇꢈꢉꢊꢋꢌꢍꢎꢏꢐꢑꢒꢓꢔꢕꢖꢗꢘꢙꢚꢛꢜꢝꢞꢟꢠꢡꢢꢣꢤꢥꢦꢧꢨꢩꢪꢫꢬꢭꢮꢯꢰꢱꢲꢳꢴꢵꢶꢷꢸꢹꢺꢻꢼꢽꢾꢿꣀꣁꣂꣃ꣄ꣅ꣆꣇꣈꣉꣊꣋꣌꣍꣎꣏꣐꣑꣒꣓꣔꣕꣖꣗꣘꣙꣚꣛꣜꣝꣞꣟꣠꣡꣢꣣꣤꣥꣦꣧꣨꣩꣪꣫꣬꣭꣮꣯꣰꣱ꣲꣳꣴꣵꣶꣷ꣸꣹꣺ꣻ꣼ꣽꣾꣿꦀꦁꦂꦃꦄꦅꦆꦇꦈꦉꦊꦋꦌꦍꦎꦏꦐꦑꦒꦓꦔꦕꦖꦗꦘꦙꦚꦛꦜꦝꦞꦟꦠꦡꦢꦣꦤꦥꦦꦧꦨꦩꦪꦫꦬꦭꦮꦯꦰꦱꦲ꦳ꦴꦵꦶꦷꦸꦹꦺꦻꦼꦽꦾꦿ꧀꧁꧂꧃꧄꧅꧆꧇꧈꧉꧊꧋꧌꧍꧎ꧏ꧐꧑꧒꧓꧔꧕꧖꧗꧘꧙꧚꧛꧜꧝꧞꧟ꧠꧡꧢꧣꧤꧥꧦꧧꧨꧩꧪꧫꧬꧭꧮꧯ꧰꧱꧲꧳꧴꧵꧶꧷꧸꧹ꧺꧻꧼꧽꧾ꧿ꪀꪁꪂꪃꪄꪅꪆꪇꪈꪉꪊꪋꪌꪍꪎꪏꪐꪑꪒꪓꪔꪕꪖꪗꪘꪙꪚꪛꪜꪝꪞꪟꪠꪡꪢꪣꪤꪥꪦꪧꪨꪩꪪꪫꪬꪭꪮꪯꪰꪱꪴꪲꪳꪵꪶꪷꪸꪹꪺꪻꪼꪽꪾ꪿ꫀ꫁ꫂ꫃꫄꫅꫆꫇꫈꫉꫊꫋꫌꫍꫎꫏꫐꫑꫒꫓꫔꫕꫖꫗꫘꫙꫚ꫛꫜꫝ꫞꫟ꫠꫡꫢꫣꫤꫥꫦꫧꫨꫩꫪꫫꫬꫭꫮꫯ꫰꫱ꫲꫳꫴꫵ꫶꫷꫸꫹꫺꫻꫼꫽꫾꫿ꮀꮁꮂꮃꮄꮅꮆꮇꮈꮉꮊꮋꮌꮍꮎꮏꮐꮑꮒꮓꮔꮕꮖꮗꮘꮙꮚꮛꮜꮝꮞꮟꮠꮡꮢꮣꮤꮥꮦꮧꮨꮩꮪꮫꮬꮭꮮꮯꮰꮱꮲꮳꮴꮵꮶꮷꮸꮹꮺꮻꮼꮽꮾꮿꯀꯁꯂꯃꯄꯅꯆꯇꯈꯉꯊꯋꯌꯍꯎꯏꯐꯑꯒꯓꯔꯕꯖꯗꯘꯙꯚꯛꯜꯝꯞꯟꯠꯡꯢꯣꯤꯥꯦꯧꯨꯩꯪ꯫꯬꯭꯮꯯꯰꯱꯲꯳꯴꯵꯶꯷꯸꯹꯺꯻꯼꯽꯾꯿검겁겂것겄겅겆겇겈겉겊겋게겍겎겏겐겑겒겓겔겕겖겗겘겙겚겛겜겝겞겟겠겡겢겣겤겥겦겧겨격겪겫견겭겮겯결겱겲겳겴겵겶겷겸겹겺겻겼경겾겿곀곁곂곃계곅곆곇곈곉곊곋곌곍곎곏곐곑곒곓곔곕곖곗곘곙곚곛곜곝곞곟고곡곢곣곤곥곦곧골곩곪곫곬곭곮곯곰곱곲곳곴공곶곷곸곹곺곻과곽곾곿궀궁궂궃궄궅궆궇궈궉궊궋권궍궎궏궐궑궒궓궔궕궖궗궘궙궚궛궜궝궞궟궠궡궢궣궤궥궦궧궨궩궪궫궬궭궮궯궰궱궲궳궴궵궶궷궸궹궺궻궼궽궾궿귀귁귂귃귄귅귆귇귈귉귊귋귌귍귎귏귐귑귒귓귔귕귖귗귘귙귚귛규귝귞귟균귡귢귣귤귥귦귧귨귩귪귫귬귭귮귯귰귱귲귳귴귵귶귷그극귺귻근귽귾귿꺀꺁꺂꺃꺄꺅꺆꺇꺈꺉꺊꺋꺌꺍꺎꺏꺐꺑꺒꺓꺔꺕꺖꺗꺘꺙꺚꺛꺜꺝꺞꺟꺠꺡꺢꺣꺤꺥꺦꺧꺨꺩꺪꺫꺬꺭꺮꺯꺰꺱꺲꺳꺴꺵꺶꺷꺸꺹꺺꺻꺼꺽꺾꺿껀껁껂껃껄껅껆껇껈껉껊껋껌껍껎껏껐껑껒껓껔껕껖껗께껙껚껛껜껝껞껟껠껡껢껣껤껥껦껧껨껩껪껫껬껭껮껯껰껱껲껳껴껵껶껷껸껹껺껻껼껽껾껿꾀꾁꾂꾃꾄꾅꾆꾇꾈꾉꾊꾋꾌꾍꾎꾏꾐꾑꾒꾓꾔꾕꾖꾗꾘꾙꾚꾛꾜꾝꾞꾟꾠꾡꾢꾣꾤꾥꾦꾧꾨꾩꾪꾫꾬꾭꾮꾯꾰꾱꾲꾳꾴꾵꾶꾷꾸꾹꾺꾻꾼꾽꾾꾿꿀꿁꿂꿃꿄꿅꿆꿇꿈꿉꿊꿋꿌꿍꿎꿏꿐꿑꿒꿓꿔꿕꿖꿗꿘꿙꿚꿛꿜꿝꿞꿟꿠꿡꿢꿣꿤꿥꿦꿧꿨꿩꿪꿫꿬꿭꿮꿯꿰꿱꿲꿳꿴꿵꿶꿷꿸꿹꿺꿻꿼꿽꿾꿿낀낁낂낃낄낅낆낇낈낉낊낋낌낍낎낏낐낑낒낓낔낕낖낗나낙낚낛난낝낞낟날낡낢낣낤낥낦낧남납낪낫났낭낮낯낰낱낲낳내낵낶낷낸낹낺낻낼낽낾낿냀냁냂냃냄냅냆냇냈냉냊냋냌냍냎냏냐냑냒냓냔냕냖냗냘냙냚냛냜냝냞냟냠냡냢냣냤냥냦냧냨냩냪냫냬냭냮냯냰냱냲냳냴냵냶냷냸냹냺냻냼냽냾냿놀놁놂놃놄놅놆놇놈놉놊놋놌농놎놏놐놑높놓놔놕놖놗놘놙놚놛놜놝놞놟놠놡놢놣놤놥놦놧놨놩놪놫놬놭놮놯놰놱놲놳놴놵놶놷놸놹놺놻놼놽놾놿뇀뇁뇂뇃뇄뇅뇆뇇뇈뇉뇊뇋뇌뇍뇎뇏뇐뇑뇒뇓뇔뇕뇖뇗뇘뇙뇚뇛뇜뇝뇞뇟뇠뇡뇢뇣뇤뇥뇦뇧뇨뇩뇪뇫뇬뇭뇮뇯뇰뇱뇲뇳뇴뇵뇶뇷뇸뇹뇺뇻뇼뇽뇾뇿늀늁늂늃늄늅늆늇늈늉늊늋늌늍늎늏느늑늒늓는늕늖늗늘늙늚늛늜늝늞늟늠늡늢늣늤능늦늧늨늩늪늫늬늭늮늯늰늱늲늳늴늵늶늷늸늹늺늻늼늽늾늿닀닁닂닃닄닅닆닇니닉닊닋닌닍닎닏닐닑닒닓닔닕닖닗님닙닚닛닜닝닞닟닠닡닢닣다닥닦닧단닩닪닫달닭닮닯닰닱닲닳담답닶닷닸당닺닻닼닽닾닿뎀뎁뎂뎃뎄뎅뎆뎇뎈뎉뎊뎋뎌뎍뎎뎏뎐뎑뎒뎓뎔뎕뎖뎗뎘뎙뎚뎛뎜뎝뎞뎟뎠뎡뎢뎣뎤뎥뎦뎧뎨뎩뎪뎫뎬뎭뎮뎯뎰뎱뎲뎳뎴뎵뎶뎷뎸뎹뎺뎻뎼뎽뎾뎿돀돁돂돃도독돆돇돈돉돊돋돌돍돎돏돐돑돒돓돔돕돖돗돘동돚돛돜돝돞돟돠돡돢돣돤돥돦돧돨돩돪돫돬돭돮돯돰돱돲돳돴돵돶돷돸돹돺돻돼돽돾돿뒀뒁뒂뒃뒄뒅뒆뒇뒈뒉뒊뒋뒌뒍뒎뒏뒐뒑뒒뒓뒔뒕뒖뒗뒘뒙뒚뒛뒜뒝뒞뒟뒠뒡뒢뒣뒤뒥뒦뒧뒨뒩뒪뒫뒬뒭뒮뒯뒰뒱뒲뒳뒴뒵뒶뒷뒸뒹뒺뒻뒼뒽뒾뒿듀듁듂듃듄듅듆듇듈듉듊듋듌듍듎듏듐듑듒듓듔듕듖듗듘듙듚듛드득듞듟든듡듢듣들듥듦듧듨듩듪듫듬듭듮듯듰등듲듳듴듵듶듷듸듹듺듻듼듽듾듿떀떁떂떃떄떅떆떇떈떉떊떋떌떍떎떏떐떑떒떓떔떕떖떗떘떙떚떛떜떝떞떟떠떡떢떣떤떥떦떧떨떩떪떫떬떭떮떯떰떱떲떳떴떵떶떷떸떹떺떻떼떽떾떿뗀뗁뗂뗃뗄뗅뗆뗇뗈뗉뗊뗋뗌뗍뗎뗏뗐뗑뗒뗓뗔뗕뗖뗗뗘뗙뗚뗛뗜뗝뗞뗟뗠뗡뗢뗣뗤뗥뗦뗧뗨뗩뗪뗫뗬뗭뗮뗯뗰뗱뗲뗳뗴뗵뗶뗷뗸뗹뗺뗻뗼뗽뗾뗿뚀뚁뚂뚃뚄뚅뚆뚇뚈뚉뚊뚋뚌뚍뚎뚏뚐뚑뚒뚓뚔뚕뚖뚗뚘뚙뚚뚛뚜뚝뚞뚟뚠뚡뚢뚣뚤뚥뚦뚧뚨뚩뚪뚫뚬뚭뚮뚯뚰뚱뚲뚳뚴뚵뚶뚷뚸뚹뚺뚻뚼뚽뚾뚿뛀뛁뛂뛃뛄뛅뛆뛇뛈뛉뛊뛋뛌뛍뛎뛏뛐뛑뛒뛓뛔뛕뛖뛗뛘뛙뛚뛛뛜뛝뛞뛟뛠뛡뛢뛣뛤뛥뛦뛧뛨뛩뛪뛫뛬뛭뛮뛯뛰뛱뛲뛳뛴뛵뛶뛷뛸뛹뛺뛻뛼뛽뛾뛿란랁랂랃랄랅랆랇랈랉랊랋람랍랎랏랐랑랒랓랔랕랖랗래랙랚랛랜랝랞랟랠랡랢랣랤랥랦랧램랩랪랫랬랭랮랯랰랱랲랳랴략랶랷랸랹랺랻랼랽랾랿럀럁럂럃럄럅럆럇럈량럊럋럌럍럎럏럐럑럒럓럔럕럖럗럘럙럚럛럜럝럞럟럠럡럢럣럤럥럦럧럨럩럪럫러럭럮럯런럱럲럳럴럵럶럷럸럹럺럻럼럽럾럿뢀뢁뢂뢃뢄뢅뢆뢇뢈뢉뢊뢋뢌뢍뢎뢏뢐뢑뢒뢓뢔뢕뢖뢗뢘뢙뢚뢛뢜뢝뢞뢟뢠뢡뢢뢣뢤뢥뢦뢧뢨뢩뢪뢫뢬뢭뢮뢯뢰뢱뢲뢳뢴뢵뢶뢷뢸뢹뢺뢻뢼뢽뢾뢿룀룁룂룃룄룅룆룇룈룉룊룋료룍룎룏룐룑룒룓룔룕룖룗룘룙룚룛룜룝룞룟룠룡룢룣룤룥룦룧루룩룪룫룬룭룮룯룰룱룲룳룴룵룶룷룸룹룺룻룼룽룾룿릀릁릂릃름릅릆릇릈릉릊릋릌릍릎릏릐릑릒릓릔릕릖릗릘릙릚릛릜릝릞릟릠릡릢릣릤릥릦릧릨릩릪릫리릭릮릯린릱릲릳릴릵릶릷릸릹릺릻림립릾릿맀링맂맃맄맅맆맇마막맊맋만맍많맏말맑맒맓맔맕맖맗맘맙맚맛맜망맞맟맠맡맢맣매맥맦맧맨맩맪맫맬맭맮맯맰맱맲맳맴맵맶맷맸맹맺맻맼맽맾맿몀몁몂몃몄명몆몇몈몉몊몋몌몍몎몏몐몑몒몓몔몕몖몗몘몙몚몛몜몝몞몟몠몡몢몣몤몥몦몧모목몪몫몬몭몮몯몰몱몲몳몴몵몶몷몸몹몺못몼몽몾몿뫀뫁뫂뫃뫄뫅뫆뫇뫈뫉뫊뫋뫌뫍뫎뫏뫐뫑뫒뫓뫔뫕뫖뫗뫘뫙뫚뫛뫜뫝뫞뫟뫠뫡뫢뫣뫤뫥뫦뫧뫨뫩뫪뫫뫬뫭뫮뫯뫰뫱뫲뫳뫴뫵뫶뫷뫸뫹뫺뫻뫼뫽뫾뫿뮀뮁뮂뮃뮄뮅뮆뮇뮈뮉뮊뮋뮌뮍뮎뮏뮐뮑뮒뮓뮔뮕뮖뮗뮘뮙뮚뮛뮜뮝뮞뮟뮠뮡뮢뮣뮤뮥뮦뮧뮨뮩뮪뮫뮬뮭뮮뮯뮰뮱뮲뮳뮴뮵뮶뮷뮸뮹뮺뮻뮼뮽뮾뮿므믁믂믃믄믅믆믇믈믉믊믋믌믍믎믏믐믑믒믓믔믕믖믗믘믙믚믛믜믝믞믟믠믡믢믣믤믥믦믧믨믩믪믫믬믭믮믯믰믱믲믳믴믵믶믷미믹믺믻민믽믾믿벀벁벂벃버벅벆벇번벉벊벋벌벍벎벏벐벑벒벓범법벖벗벘벙벚벛벜벝벞벟베벡벢벣벤벥벦벧벨벩벪벫벬벭벮벯벰벱벲벳벴벵벶벷벸벹벺벻벼벽벾벿변볁볂볃별볅볆볇볈볉볊볋볌볍볎볏볐병볒볓볔볕볖볗볘볙볚볛볜볝볞볟볠볡볢볣볤볥볦볧볨볩볪볫볬볭볮볯볰볱볲볳보복볶볷본볹볺볻볼볽볾볿부북붂붃분붅붆붇불붉붊붋붌붍붎붏붐붑붒붓붔붕붖붗붘붙붚붛붜붝붞붟붠붡붢붣붤붥붦붧붨붩붪붫붬붭붮붯붰붱붲붳붴붵붶붷붸붹붺붻붼붽붾붿뷀뷁뷂뷃뷄뷅뷆뷇뷈뷉뷊뷋뷌뷍뷎뷏뷐뷑뷒뷓뷔뷕뷖뷗뷘뷙뷚뷛뷜뷝뷞뷟뷠뷡뷢뷣뷤뷥뷦뷧뷨뷩뷪뷫뷬뷭뷮뷯뷰뷱뷲뷳뷴뷵뷶뷷뷸뷹뷺뷻뷼뷽뷾뷿뺀뺁뺂뺃뺄뺅뺆뺇뺈뺉뺊뺋뺌뺍뺎뺏뺐뺑뺒뺓뺔뺕뺖뺗뺘뺙뺚뺛뺜뺝뺞뺟뺠뺡뺢뺣뺤뺥뺦뺧뺨뺩뺪뺫뺬뺭뺮뺯뺰뺱뺲뺳뺴뺵뺶뺷뺸뺹뺺뺻뺼뺽뺾뺿뻀뻁뻂뻃뻄뻅뻆뻇뻈뻉뻊뻋뻌뻍뻎뻏뻐뻑뻒뻓뻔뻕뻖뻗뻘뻙뻚뻛뻜뻝뻞뻟뻠뻡뻢뻣뻤뻥뻦뻧뻨뻩뻪뻫뻬뻭뻮뻯뻰뻱뻲뻳뻴뻵뻶뻷뻸뻹뻺뻻뻼뻽뻾뻿뾀뾁뾂뾃뾄뾅뾆뾇뾈뾉뾊뾋뾌뾍뾎뾏뾐뾑뾒뾓뾔뾕뾖뾗뾘뾙뾚뾛뾜뾝뾞뾟뾠뾡뾢뾣뾤뾥뾦뾧뾨뾩뾪뾫뾬뾭뾮뾯뾰뾱뾲뾳뾴뾵뾶뾷뾸뾹뾺뾻뾼뾽뾾뾿뿀뿁뿂뿃뿄뿅뿆뿇뿈뿉뿊뿋뿌뿍뿎뿏뿐뿑뿒뿓뿔뿕뿖뿗뿘뿙뿚뿛뿜뿝뿞뿟뿠뿡뿢뿣뿤뿥뿦뿧뿨뿩뿪뿫뿬뿭뿮뿯뿰뿱뿲뿳뿴뿵뿶뿷뿸뿹뿺뿻뿼뿽뿾뿿삀삁삂삃삄삅삆삇삈삉삊삋삌삍삎삏삐삑삒삓삔삕삖삗삘삙삚삛삜삝삞삟삠삡삢삣삤삥삦삧삨삩삪삫사삭삮삯산삱삲삳살삵삶삷삸삹삺삻삼삽삾삿샀상샂샃샄샅샆샇새색샊샋샌샍샎샏샐샑샒샓샔샕샖샗샘샙샚샛샜생샞샟샠샡샢샣샤샥샦샧샨샩샪샫샬샭샮샯샰샱샲샳샴샵샶샷샸샹샺샻샼샽샾샿솀솁솂솃솄솅솆솇솈솉솊솋소속솎솏손솑솒솓솔솕솖솗솘솙솚솛솜솝솞솟솠송솢솣솤솥솦솧솨솩솪솫솬솭솮솯솰솱솲솳솴솵솶솷솸솹솺솻솼솽솾솿쇀쇁쇂쇃쇄쇅쇆쇇쇈쇉쇊쇋쇌쇍쇎쇏쇐쇑쇒쇓쇔쇕쇖쇗쇘쇙쇚쇛쇜쇝쇞쇟쇠쇡쇢쇣쇤쇥쇦쇧쇨쇩쇪쇫쇬쇭쇮쇯쇰쇱쇲쇳쇴쇵쇶쇷쇸쇹쇺쇻쇼쇽쇾쇿슀슁슂슃슄슅슆슇슈슉슊슋슌슍슎슏슐슑슒슓슔슕슖슗슘슙슚슛슜슝슞슟슠슡슢슣스슥슦슧슨슩슪슫슬슭슮슯슰슱슲슳슴습슶슷슸승슺슻슼슽슾슿싀싁싂싃싄싅싆싇싈싉싊싋싌싍싎싏싐싑싒싓싔싕싖싗싘싙싚싛시식싞싟신싡싢싣실싥싦싧싨싩싪싫심십싮싯싰싱싲싳싴싵싶싷싸싹싺싻싼싽싾싿쎀쎁쎂쎃쎄쎅쎆쎇쎈쎉쎊쎋쎌쎍쎎쎏쎐쎑쎒쎓쎔쎕쎖쎗쎘쎙쎚쎛쎜쎝쎞쎟쎠쎡쎢쎣쎤쎥쎦쎧쎨쎩쎪쎫쎬쎭쎮쎯쎰쎱쎲쎳쎴쎵쎶쎷쎸쎹쎺쎻쎼쎽쎾쎿쏀쏁쏂쏃쏄쏅쏆쏇쏈쏉쏊쏋쏌쏍쏎쏏쏐쏑쏒쏓쏔쏕쏖쏗쏘쏙쏚쏛쏜쏝쏞쏟쏠쏡쏢쏣쏤쏥쏦쏧쏨쏩쏪쏫쏬쏭쏮쏯쏰쏱쏲쏳쏴쏵쏶쏷쏸쏹쏺쏻쏼쏽쏾쏿쒀쒁쒂쒃쒄쒅쒆쒇쒈쒉쒊쒋쒌쒍쒎쒏쒐쒑쒒쒓쒔쒕쒖쒗쒘쒙쒚쒛쒜쒝쒞쒟쒠쒡쒢쒣쒤쒥쒦쒧쒨쒩쒪쒫쒬쒭쒮쒯쒰쒱쒲쒳쒴쒵쒶쒷쒸쒹쒺쒻쒼쒽쒾쒿쓀쓁쓂쓃쓄쓅쓆쓇쓈쓉쓊쓋쓌쓍쓎쓏쓐쓑쓒쓓쓔쓕쓖쓗쓘쓙쓚쓛쓜쓝쓞쓟쓠쓡쓢쓣쓤쓥쓦쓧쓨쓩쓪쓫쓬쓭쓮쓯쓰쓱쓲쓳쓴쓵쓶쓷쓸쓹쓺쓻쓼쓽쓾쓿얀얁얂얃얄얅얆얇얈얉얊얋얌얍얎얏얐양얒얓얔얕얖얗얘얙얚얛얜얝얞얟얠얡얢얣얤얥얦얧얨얩얪얫얬얭얮얯얰얱얲얳어억얶얷언얹얺얻얼얽얾얿엀엁엂엃엄업없엇었엉엊엋엌엍엎엏에엑엒엓엔엕엖엗엘엙엚엛엜엝엞엟엠엡엢엣엤엥엦엧엨엩엪엫여역엮엯연엱엲엳열엵엶엷엸엹엺엻염엽엾엿욀욁욂욃욄욅욆욇욈욉욊욋욌욍욎욏욐욑욒욓요욕욖욗욘욙욚욛욜욝욞욟욠욡욢욣욤욥욦욧욨용욪욫욬욭욮욯우욱욲욳운욵욶욷울욹욺욻욼욽욾욿움웁웂웃웄웅웆웇웈웉웊웋워웍웎웏원웑웒웓월웕웖웗웘웙웚웛웜웝웞웟웠웡웢웣웤웥웦웧웨웩웪웫웬웭웮웯웰웱웲웳웴웵웶웷웸웹웺웻웼웽웾웿잀잁잂잃임입잆잇있잉잊잋잌잍잎잏자작잒잓잔잕잖잗잘잙잚잛잜잝잞잟잠잡잢잣잤장잦잧잨잩잪잫재잭잮잯잰잱잲잳잴잵잶잷잸잹잺잻잼잽잾잿쟀쟁쟂쟃쟄쟅쟆쟇쟈쟉쟊쟋쟌쟍쟎쟏쟐쟑쟒쟓쟔쟕쟖쟗쟘쟙쟚쟛쟜쟝쟞쟟쟠쟡쟢쟣쟤쟥쟦쟧쟨쟩쟪쟫쟬쟭쟮쟯쟰쟱쟲쟳쟴쟵쟶쟷쟸쟹쟺쟻쟼쟽쟾쟿좀좁좂좃좄종좆좇좈좉좊좋좌좍좎좏좐좑좒좓좔좕좖좗좘좙좚좛좜좝좞좟좠좡좢좣좤좥좦좧좨좩좪좫좬좭좮좯좰좱좲좳좴좵좶좷좸좹좺좻좼좽좾좿죀죁죂죃죄죅죆죇죈죉죊죋죌죍죎죏죐죑죒죓죔죕죖죗죘죙죚죛죜죝죞죟죠죡죢죣죤죥죦죧죨죩죪죫죬죭죮죯죰죱죲죳죴죵죶죷죸죹죺죻주죽죾죿즀즁즂즃즄즅즆즇즈즉즊즋즌즍즎즏즐즑즒즓즔즕즖즗즘즙즚즛즜증즞즟즠즡즢즣즤즥즦즧즨즩즪즫즬즭즮즯즰즱즲즳즴즵즶즷즸즹즺즻즼즽즾즿지직짂짃진짅짆짇질짉짊짋짌짍짎짏짐집짒짓짔징짖짗짘짙짚짛짜짝짞짟짠짡짢짣짤짥짦짧짨짩짪짫짬짭짮짯짰짱짲짳짴짵짶짷째짹짺짻짼짽짾짿쪀쪁쪂쪃쪄쪅쪆쪇쪈쪉쪊쪋쪌쪍쪎쪏쪐쪑쪒쪓쪔쪕쪖쪗쪘쪙쪚쪛쪜쪝쪞쪟쪠쪡쪢쪣쪤쪥쪦쪧쪨쪩쪪쪫쪬쪭쪮쪯쪰쪱쪲쪳쪴쪵쪶쪷쪸쪹쪺쪻쪼쪽쪾쪿쫀쫁쫂쫃쫄쫅쫆쫇쫈쫉쫊쫋쫌쫍쫎쫏쫐쫑쫒쫓쫔쫕쫖쫗쫘쫙쫚쫛쫜쫝쫞쫟쫠쫡쫢쫣쫤쫥쫦쫧쫨쫩쫪쫫쫬쫭쫮쫯쫰쫱쫲쫳쫴쫵쫶쫷쫸쫹쫺쫻쫼쫽쫾쫿쮀쮁쮂쮃쮄쮅쮆쮇쮈쮉쮊쮋쮌쮍쮎쮏쮐쮑쮒쮓쮔쮕쮖쮗쮘쮙쮚쮛쮜쮝쮞쮟쮠쮡쮢쮣쮤쮥쮦쮧쮨쮩쮪쮫쮬쮭쮮쮯쮰쮱쮲쮳쮴쮵쮶쮷쮸쮹쮺쮻쮼쮽쮾쮿쯀쯁쯂쯃쯄쯅쯆쯇쯈쯉쯊쯋쯌쯍쯎쯏쯐쯑쯒쯓쯔쯕쯖쯗쯘쯙쯚쯛쯜쯝쯞쯟쯠쯡쯢쯣쯤쯥쯦쯧쯨쯩쯪쯫쯬쯭쯮쯯쯰쯱쯲쯳쯴쯵쯶쯷쯸쯹쯺쯻쯼쯽쯾쯿첀첁첂첃첄첅첆첇첈첉첊첋첌첍첎첏첐첑첒첓첔첕첖첗처척첚첛천첝첞첟철첡첢첣첤첥첦첧첨첩첪첫첬청첮첯첰첱첲첳체첵첶첷첸첹첺첻첼첽첾첿쳀쳁쳂쳃쳄쳅쳆쳇쳈쳉쳊쳋쳌쳍쳎쳏쳐쳑쳒쳓쳔쳕쳖쳗쳘쳙쳚쳛쳜쳝쳞쳟쳠쳡쳢쳣쳤쳥쳦쳧쳨쳩쳪쳫쳬쳭쳮쳯쳰쳱쳲쳳쳴쳵쳶쳷쳸쳹쳺쳻쳼쳽쳾쳿춀춁춂춃춄춅춆춇춈춉춊춋춌춍춎춏춐춑춒춓추축춖춗춘춙춚춛출춝춞춟춠춡춢춣춤춥춦춧춨충춪춫춬춭춮춯춰춱춲춳춴춵춶춷춸춹춺춻춼춽춾춿췀췁췂췃췄췅췆췇췈췉췊췋췌췍췎췏췐췑췒췓췔췕췖췗췘췙췚췛췜췝췞췟췠췡췢췣췤췥췦췧취췩췪췫췬췭췮췯췰췱췲췳췴췵췶췷췸췹췺췻췼췽췾췿캀캁캂캃캄캅캆캇캈캉캊캋캌캍캎캏캐캑캒캓캔캕캖캗캘캙캚캛캜캝캞캟캠캡캢캣캤캥캦캧캨캩캪캫캬캭캮캯캰캱캲캳캴캵캶캷캸캹캺캻캼캽캾캿컀컁컂컃컄컅컆컇컈컉컊컋컌컍컎컏컐컑컒컓컔컕컖컗컘컙컚컛컜컝컞컟컠컡컢컣커컥컦컧컨컩컪컫컬컭컮컯컰컱컲컳컴컵컶컷컸컹컺컻컼컽컾컿쾀쾁쾂쾃쾄쾅쾆쾇쾈쾉쾊쾋쾌쾍쾎쾏쾐쾑쾒쾓쾔쾕쾖쾗쾘쾙쾚쾛쾜쾝쾞쾟쾠쾡쾢쾣쾤쾥쾦쾧쾨쾩쾪쾫쾬쾭쾮쾯쾰쾱쾲쾳쾴쾵쾶쾷쾸쾹쾺쾻쾼쾽쾾쾿쿀쿁쿂쿃쿄쿅쿆쿇쿈쿉쿊쿋쿌쿍쿎쿏쿐쿑쿒쿓쿔쿕쿖쿗쿘쿙쿚쿛쿜쿝쿞쿟쿠쿡쿢쿣쿤쿥쿦쿧쿨쿩쿪쿫쿬쿭쿮쿯쿰쿱쿲쿳쿴쿵쿶쿷쿸쿹쿺쿻쿼쿽쿾쿿킀킁킂킃킄킅킆킇킈킉킊킋킌킍킎킏킐킑킒킓킔킕킖킗킘킙킚킛킜킝킞킟킠킡킢킣키킥킦킧킨킩킪킫킬킭킮킯킰킱킲킳킴킵킶킷킸킹킺킻킼킽킾킿타탁탂탃탄탅탆탇탈탉탊탋탌탍탎탏탐탑탒탓탔탕탖탗탘탙탚탛태택탞탟탠탡탢탣탤탥탦탧탨탩탪탫탬탭탮탯탰탱탲탳탴탵탶탷탸탹탺탻탼탽탾탿톀톁톂톃톄톅톆톇톈톉톊톋톌톍톎톏톐톑톒톓톔톕톖톗톘톙톚톛톜톝톞톟토톡톢톣톤톥톦톧톨톩톪톫톬톭톮톯톰톱톲톳톴통톶톷톸톹톺톻톼톽톾톿퇀퇁퇂퇃퇄퇅퇆퇇퇈퇉퇊퇋퇌퇍퇎퇏퇐퇑퇒퇓퇔퇕퇖퇗퇘퇙퇚퇛퇜퇝퇞퇟퇠퇡퇢퇣퇤퇥퇦퇧퇨퇩퇪퇫퇬퇭퇮퇯퇰퇱퇲퇳퇴퇵퇶퇷퇸퇹퇺퇻퇼퇽퇾퇿튀튁튂튃튄튅튆튇튈튉튊튋튌튍튎튏튐튑튒튓튔튕튖튗튘튙튚튛튜튝튞튟튠튡튢튣튤튥튦튧튨튩튪튫튬튭튮튯튰튱튲튳튴튵튶튷트특튺튻튼튽튾튿틀틁틂틃틄틅틆틇틈틉틊틋틌틍틎틏틐틑틒틓틔틕틖틗틘틙틚틛틜틝틞틟틠틡틢틣틤틥틦틧틨틩틪틫틬틭틮틯티틱틲틳틴틵틶틷틸틹틺틻틼틽틾틿펀펁펂펃펄펅펆펇펈펉펊펋펌펍펎펏펐펑펒펓펔펕펖펗페펙펚펛펜펝펞펟펠펡펢펣펤펥펦펧펨펩펪펫펬펭펮펯펰펱펲펳펴펵펶펷편펹펺펻펼펽펾펿폀폁폂폃폄폅폆폇폈평폊폋폌폍폎폏폐폑폒폓폔폕폖폗폘폙폚폛폜폝폞폟폠폡폢폣폤폥폦폧폨폩폪폫포폭폮폯폰폱폲폳폴폵폶폷폸폹폺폻폼폽폾폿풀풁풂풃풄풅풆풇품풉풊풋풌풍풎풏풐풑풒풓풔풕풖풗풘풙풚풛풜풝풞풟풠풡풢풣풤풥풦풧풨풩풪풫풬풭풮풯풰풱풲풳풴풵풶풷풸풹풺풻풼풽풾풿퓀퓁퓂퓃퓄퓅퓆퓇퓈퓉퓊퓋퓌퓍퓎퓏퓐퓑퓒퓓퓔퓕퓖퓗퓘퓙퓚퓛퓜퓝퓞퓟퓠퓡퓢퓣퓤퓥퓦퓧퓨퓩퓪퓫퓬퓭퓮퓯퓰퓱퓲퓳퓴퓵퓶퓷퓸퓹퓺퓻퓼퓽퓾퓿햀햁햂햃햄햅햆햇했행햊햋햌햍햎햏햐햑햒햓햔햕햖햗햘햙햚햛햜햝햞햟햠햡햢햣햤향햦햧햨햩햪햫햬햭햮햯햰햱햲햳햴햵햶햷햸햹햺햻햼햽햾햿헀헁헂헃헄헅헆헇허헉헊헋헌헍헎헏헐헑헒헓헔헕헖헗험헙헚헛헜헝헞헟헠헡헢헣헤헥헦헧헨헩헪헫헬헭헮헯헰헱헲헳헴헵헶헷헸헹헺헻헼헽헾헿횀횁횂횃횄횅횆횇횈횉횊횋회획횎횏횐횑횒횓횔횕횖횗횘횙횚횛횜횝횞횟횠횡횢횣횤횥횦횧효횩횪횫횬횭횮횯횰횱횲횳횴횵횶횷횸횹횺횻횼횽횾횿훀훁훂훃후훅훆훇훈훉훊훋훌훍훎훏훐훑훒훓훔훕훖훗훘훙훚훛훜훝훞훟훠훡훢훣훤훥훦훧훨훩훪훫훬훭훮훯훰훱훲훳훴훵훶훷훸훹훺훻훼훽훾훿힀힁힂힃힄힅힆힇히힉힊힋힌힍힎힏힐힑힒힓힔힕힖힗힘힙힚힛힜힝힞힟힠힡힢힣힤힥힦힧힨힩힪힫힬힭힮힯ힰힱힲힳힴힵힶힷힸힹힺힻힼힽힾힿퟀퟁퟂퟃퟄퟅퟆ퟇퟈퟉퟊ퟋퟌퟍퟎퟏퟐퟑퟒퟓퟔퟕퟖퟗퟘퟙퟚퟛퟜퟝퟞퟟퟠퟡퟢퟣퟤퟥퟦퟧퟨퟩퟪퟫퟬퟭퟮퟯퟰퟱퟲퟳퟴퟵퟶퟷퟸퟹퟺퟻ퟼퟽퟾퟿呂女廬旅濾礪閭驪麗黎力曆歷轢年憐戀撚漣煉璉秊練聯輦蓮連鍊列劣咽烈裂說廉念捻殮簾獵令囹寧嶺怜玲瑩羚聆鈴零靈領例禮醴隸惡了僚寮尿料樂燎療蓼遼龍暈阮劉杻柳流溜琉留硫紐類六戮陸倫崙淪輪律慄栗率隆利吏履易李梨泥理痢罹裏裡里離匿溺吝燐璘藺隣鱗麟林淋臨立笠粒狀炙識什茶刺婢嬨廒廙彩徭惘慎愈憎慠懲戴揄搜摒敖晴朗望杖歹殺流滛滋漢瀞煮瞧爵犯猪瑱甆画瘝瘟益盛直睊着磌窱節类絛練缾者荒華蝹襁覆視調諸請謁諾諭謹變贈輸遲醙鉶陼難靖韛響頋頻鬒龜𢡊𢡄𣏕㮝䀘䀹𥉉𥳐𧻓齃龎﫚﫛﫜﫝﫞﫟﫠﫡﫢﫣﫤﫥﫦﫧﫨﫩﫪﫫﫬﫭﫮﫯﫰﫱﫲﫳﫴﫵﫶﫷﫸﫹﫺﫻﫼﫽﫾﫿ﮀﮁﮂﮃﮄﮅﮆﮇﮈﮉﮊﮋﮌﮍﮎﮏﮐﮑﮒﮓﮔﮕﮖﮗﮘﮙﮚﮛﮜﮝﮞﮟﮠﮡﮢﮣﮤﮥﮦﮧﮨﮩﮪﮫﮬﮭﮮﮯﮰﮱ﮲﮳﮴﮵﮶﮷﮸﮹﮺﮻﮼﮽﮾﮿﯀﯁﯂﯃﯄﯅﯆﯇﯈﯉﯊﯋﯌﯍﯎﯏﯐﯑﯒ﯓﯔﯕﯖﯗﯘﯙﯚﯛﯜﯝﯞﯟﯠﯡﯢﯣﯤﯥﯦﯧﯨﯩﯪﯫﯬﯭﯮﯯﯰﯱﯲﯳﯴﯵﯶﯷﯸﯹﯺﯻﯼﯽﯾﯿﲀﲁﲂﲃﲄﲅﲆﲇﲈﲉﲊﲋﲌﲍﲎﲏﲐﲑﲒﲓﲔﲕﲖﲗﲘﲙﲚﲛﲜﲝﲞﲟﲠﲡﲢﲣﲤﲥﲦﲧﲨﲩﲪﲫﲬﲭﲮﲯﲰﲱﲲﲳﲴﲵﲶﲷﲸﲹﲺﲻﲼﲽﲾﲿﳀﳁﳂﳃﳄﳅﳆﳇﳈﳉﳊﳋﳌﳍﳎﳏﳐﳑﳒﳓﳔﳕﳖﳗﳘﳙﳚﳛﳜﳝﳞﳟﳠﳡﳢﳣﳤﳥﳦﳧﳨﳩﳪﳫﳬﳭﳮﳯﳰﳱﳲﳳﳴﳵﳶﳷﳸﳹﳺﳻﳼﳽﳾﳿﶀﶁﶂﶃﶄﶅﶆﶇﶈﶉﶊﶋﶌﶍﶎﶏ﶐﶑ﶒﶓﶔﶕﶖﶗﶘﶙﶚﶛﶜﶝﶞﶟﶠﶡﶢﶣﶤﶥﶦﶧﶨﶩﶪﶫﶬﶭﶮﶯﶰﶱﶲﶳﶴﶵﶶﶷﶸﶹﶺﶻﶼﶽﶾﶿﷀﷁﷂﷃﷄﷅﷆﷇ﷈﷉﷊﷋﷌﷍﷎﷏﷐﷑﷒﷓﷔﷕﷖﷗﷘﷙﷚﷛﷜﷝﷞﷟﷠﷡﷢﷣﷤﷥﷦﷧﷨﷩﷪﷫﷬﷭﷮﷯ﷰﷱﷲﷳﷴﷵﷶﷷﷸﷹﷺﷻ﷼﷽﷾﷿ﺀﺁﺂﺃﺄﺅﺆﺇﺈﺉﺊﺋﺌﺍﺎﺏﺐﺑﺒﺓﺔﺕﺖﺗﺘﺙﺚﺛﺜﺝﺞﺟﺠﺡﺢﺣﺤﺥﺦﺧﺨﺩﺪﺫﺬﺭﺮﺯﺰﺱﺲﺳﺴﺵﺶﺷﺸﺹﺺﺻﺼﺽﺾﺿﻀﻁﻂﻃﻄﻅﻆﻇﻈﻉﻊﻋﻌﻍﻎﻏﻐﻑﻒﻓﻔﻕﻖﻗﻘﻙﻚﻛﻜﻝﻞﻟﻠﻡﻢﻣﻤﻥﻦﻧﻨﻩﻪﻫﻬﻭﻮﻯﻰﻱﻲﻳﻴﻵﻶﻷﻸﻹﻺﻻﻼ﻽﻾﻿ﾀﾁﾂﾃﾄﾅﾆﾇﾈﾉﾊﾋﾌﾍﾎﾏﾐﾑﾒﾓﾔﾕﾖﾗﾘﾙﾚﾛﾜﾝﾞﾟﾠﾡﾢﾣﾤﾥﾦﾧﾨﾩﾪﾫﾬﾭﾮﾯﾰﾱﾲﾳﾴﾵﾶﾷﾸﾹﾺﾻﾼﾽﾾ﾿￀￁ￂￃￄￅￆￇ￈￉ￊￋￌￍￎￏ￐￑ￒￓￔￕￖￗ￘￙ￚￛￜ￝￞￟￠￡￢￣￤￥￦￧￨￩￪￫￬￭￮￯￰￱￲￳￴￵￶￷￸￹￺￻￼�￾￿"

\* TRUE iff a string can hold chr(n)
HasChr(n) ==
    \/ n \in 1..255 /\ n # 126
    \/ n \in 256..65535 /\ n % 256 >= 128 /\ n \div 256 \notin 216..223

\* chr(n), for a code with HasChr(n)
Chr(n) ==
    IF n < 126 THEN Ch(Alphabet, n)
    ELSE IF n < 256 THEN Ch(Alphabet, n - 1)
    ELSE Ch(Alphabet, 128 * (n \div 256 - (IF n \div 256 > 223 THEN 9 ELSE 1)) + (n % 256) + 127)

\* chr(n) of a code without HasChr(n): the character is one no string of this
\* module holds, and the expression has no value (its evaluation stops)
NotHeld(n) == CHOOSE c \in {} : c = n

\* the characters of the codes of a set, those a string can hold
CharsAt(codes) == {Chr(n) : n \in {m \in codes : HasChr(m)}}

\* str.isspace(), which is also the \s class of re on a str
WhitespaceCodes ==
    (9..13) \cup (28..32) \cup (8192..8202) \cup (8232..8233) \cup {133, 160,
    5760, 8239, 8287, 12288}

\* the line boundaries of str.splitlines()
LineBreakCodes ==
    (10..13) \cup (28..30) \cup (8232..8233) \cup {133}

\* the code of the digit zero of each run of decimal digits (category Nd): the
\* digit of value v of a run is at zero + v
DecimalZeroCodes ==
    {48, 1632, 1776, 1984, 2406, 2534, 2662, 2790, 2918, 3046, 3174, 3302,
    3430, 3558, 3664, 3792, 3872, 4160, 4240, 6112, 6160, 6470, 6608, 6784,
    6800, 6992, 7088, 7232, 7248, 42528, 43216, 43264, 43472, 43504, 43600,
    44016, 65296}

\* the \w class of re on a str: str.isalnum() or the underscore
WordCodes ==
    (48..57) \cup (65..90) \cup (97..122) \cup (178..179) \cup (185..186) \cup
    (188..190) \cup (192..214) \cup (216..246) \cup (248..705) \cup (710..721)
    \cup (736..740) \cup (880..884) \cup (886..887) \cup (890..893) \cup
    (904..906) \cup (910..929) \cup (931..1013) \cup (1015..1153) \cup
    (1162..1327) \cup (1329..1366) \cup (1376..1416) \cup (1488..1514) \cup
    (1519..1522) \cup (1568..1610) \cup (1632..1641) \cup (1646..1647) \cup
    (1649..1747) \cup (1765..1766) \cup (1774..1788) \cup (1810..1839) \cup
    (1869..1957) \cup (1984..2026) \cup (2036..2037) \cup (2048..2069) \cup
    (2112..2136) \cup (2144..2154) \cup (2160..2183) \cup (2185..2190) \cup
    (2208..2249) \cup (2308..2361) \cup (2392..2401) \cup (2406..2415) \cup
    (2417..2432) \cup (2437..2444) \cup (2447..2448) \cup (2451..2472) \cup
    (2474..2480) \cup (2486..2489) \cup (2524..2525) \cup (2527..2529) \cup
    (2534..2545) \cup (2548..2553) \cup (2565..2570) \cup (2575..2576) \cup
    (2579..2600) \cup (2602..2608) \cup (2610..2611) \cup (2613..2614) \cup
    (2616..2617) \cup (2649..2652) \cup (2662..2671) \cup (2674..2676) \cup
    (2693..2701) \cup (2703..2705) \cup (2707..2728) \cup (2730..2736) \cup
    (2738..2739) \cup (2741..2745) \cup (2784..2785) \cup (2790..2799) \cup
    (2821..2828) \cup (2831..2832) \cup (2835..2856) \cup (2858..2864) \cup
    (2866..2867) \cup (2869..2873) \cup (2908..2909) \cup (2911..2913) \cup
    (2918..2927) \cup (2929..2935) \cup (2949..2954) \cup (2958..2960) \cup
    (2962..2965) \cup (2969..2970) \cup (2974..2975) \cup (2979..2980) \cup
    (2984..2986) \cup (2990..3001) \cup (3046..3058) \cup (3077..3084) \cup
    (3086..3088) \cup (3090..3112) \cup (3114..3129) \cup (3160..3162) \cup
    (3168..3169) \cup (3174..3183) \cup (3192..3198) \cup (3205..3212) \cup
    (3214..3216) \cup (3218..3240) \cup (3242..3251) \cup (3253..3257) \cup
    (3293..3294) \cup (3296..3297) \cup (3302..3311) \cup (3313..3314) \cup
    (3332..3340) \cup (3342..3344) \cup (3346..3386) \cup (3412..3414) \cup
    (3416..3425) \cup (3430..3448) \cup (3450..3455) \cup (3461..3478) \cup
    (3482..3505) \cup (3507..3515) \cup (3520..3526) \cup (3558..3567) \cup
    (3585..3632) \cup (3634..3635) \cup (3648..3654) \cup (3664..3673) \cup
    (3713..3714) \cup (3718..3722) \cup (3724..3747) \cup (3751..3760) \cup
    (3762..3763) \cup (3776..3780) \cup (3792..3801) \cup (3804..3807) \cup
    (3872..3891) \cup (3904..3911) \cup (3913..3948) \cup (3976..3980) \cup
    (4096..4138) \cup (4159..4169) \cup (4176..4181) \cup (4186..4189) \cup
    (4197..4198) \cup (4206..4208) \cup (4213..4225) \cup (4240..4249) \cup
    (4256..4293) \cup (4304..4346) \cup (4348..4680) \cup (4682..4685) \cup
    (4688..4694) \cup (4698..4701) \cup (4704..4744) \cup (4746..4749) \cup
    (4752..4784) \cup (4786..4789) \cup (4792..4798) \cup (4802..4805) \cup
    (4808..4822) \cup (4824..4880) \cup (4882..4885) \cup (4888..4954) \cup
    (4969..4988) \cup (4992..5007) \cup (5024..5109) \cup (5112..5117) \cup
    (5121..5740) \cup (5743..5759) \cup (5761..5786) \cup (5792..5866) \cup
    (5870..5880) \cup (5888..5905) \cup (5919..5937) \cup (5952..5969) \cup
    (5984..5996) \cup (5998..6000) \cup (6016..6067) \cup (6112..6121) \cup
    (6128..6137) \cup (6160..6169) \cup (6176..6264) \cup (6272..6276) \cup
    (6279..6312) \cup (6320..6389) \cup (6400..6430) \cup (6470..6509) \cup
    (6512..6516) \cup (6528..6571) \cup (6576..6601) \cup (6608..6618) \cup
    (6656..6678) \cup (6688..6740) \cup (6784..6793) \cup (6800..6809) \cup
    (6917..6963) \cup (6981..6988) \cup (6992..7001) \cup (7043..7072) \cup
    (7086..7141) \cup (7168..7203) \cup (7232..7241) \cup (7245..7293) \cup
    (7296..7304) \cup (7312..7354) \cup (7357..7359) \cup (7401..7404) \cup
    (7406..7411) \cup (7413..7414) \cup (7424..7615) \cup (7680..7957) \cup
    (7960..7965) \cup (7968..8005) \cup (8008..8013) \cup (8016..8023) \cup
    (8031..8061) \cup (8064..8116) \cup (8118..8124) \cup (8130..8132) \cup
    (8134..8140) \cup (8144..8147) \cup (8150..8155) \cup (8160..8172) \cup
    (8178..8180) \cup (8182..8188) \cup (8304..8305) \cup (8308..8313) \cup
    (8319..8329) \cup (8336..8348) \cup (8458..8467) \cup (8473..8477) \cup
    (8490..8493) \cup (8495..8505) \cup (8508..8511) \cup (8517..8521) \cup
    (8528..8585) \cup (9312..9371) \cup (9450..9471) \cup (10102..10131) \cup
    (11264..11492) \cup (11499..11502) \cup (11506..11507) \cup (11520..11557)
    \cup (11568..11623) \cup (11648..11670) \cup (11680..11686) \cup
    (11688..11694) \cup (11696..11702) \cup (11704..11710) \cup (11712..11718)
    \cup (11720..11726) \cup (11728..11734) \cup (11736..11742) \cup
    (12293..12295) \cup (12321..12329) \cup (12337..12341) \cup (12344..12348)
    \cup (12353..12438) \cup (12445..12447) \cup (12449..12538) \cup
    (12540..12543) \cup (12549..12591) \cup (12593..12686) \cup (12690..12693)
    \cup (12704..12735) \cup (12784..12799) \cup (12832..12841) \cup
    (12872..12879) \cup (12881..12895) \cup (12928..12937) \cup (12977..12991)
    \cup (13312..19903) \cup (19968..42124) \cup (42192..42237) \cup
    (42240..42508) \cup (42512..42539) \cup (42560..42606) \cup (42623..42653)
    \cup (42656..42735) \cup (42775..42783) \cup (42786..42888) \cup
    (42891..42954) \cup (42960..42961) \cup (42965..42969) \cup (42994..43009)
    \cup (43011..43013) \cup (43015..43018) \cup (43020..43042) \cup
    (43056..43061) \cup (43072..43123) \cup (43138..43187) \cup (43216..43225)
    \cup (43250..43255) \cup (43261..43262) \cup (43264..43301) \cup
    (43312..43334) \cup (43360..43388) \cup (43396..43442) \cup (43471..43481)
    \cup (43488..43492) \cup (43494..43518) \cup (43520..43560) \cup
    (43584..43586) \cup (43588..43595) \cup (43600..43609) \cup (43616..43638)
    \cup (43646..43695) \cup (43701..43702) \cup (43705..43709) \cup
    (43739..43741) \cup (43744..43754) \cup (43762..43764) \cup (43777..43782)
    \cup (43785..43790) \cup (43793..43798) \cup (43808..43814) \cup
    (43816..43822) \cup (43824..43866) \cup (43868..43881) \cup (43888..44002)
    \cup (44016..44025) \cup (44032..55203) \cup (55216..55238) \cup
    (55243..55291) \cup (63744..64109) \cup (64112..64217) \cup (64256..64262)
    \cup (64275..64279) \cup (64287..64296) \cup (64298..64310) \cup
    (64312..64316) \cup (64320..64321) \cup (64323..64324) \cup (64326..64433)
    \cup (64467..64829) \cup (64848..64911) \cup (64914..64967) \cup
    (65008..65019) \cup (65136..65140) \cup (65142..65276) \cup (65296..65305)
    \cup (65313..65338) \cup (65345..65370) \cup (65382..65470) \cup
    (65474..65479) \cup (65482..65487) \cup (65490..65495) \cup (65498..65500)
    \cup {95, 170, 181, 748, 750, 895, 902, 908, 1369, 1749, 1791, 1808, 1969,
    2042, 2074, 2084, 2088, 2365, 2384, 2482, 2493, 2510, 2556, 2654, 2749,
    2768, 2809, 2877, 2947, 2972, 3024, 3133, 3165, 3200, 3261, 3389, 3406,
    3517, 3716, 3749, 3773, 3782, 3840, 4193, 4238, 4295, 4301, 4696, 4800,
    6103, 6108, 6314, 6823, 7418, 8025, 8027, 8029, 8126, 8450, 8455, 8469,
    8484, 8486, 8488, 8526, 11517, 11559, 11565, 11631, 11823, 42963, 43259,
    43642, 43697, 43712, 43714, 64285, 64318}

\* the characters with the Unicode property Cased and without Case_Ignorable
CasedCodes ==
    (65..90) \cup (97..122) \cup (192..214) \cup (216..246) \cup (248..442)
    \cup (444..447) \cup (452..659) \cup (661..687) \cup (880..883) \cup
    (886..887) \cup (891..893) \cup (904..906) \cup (910..929) \cup
    (931..1013) \cup (1015..1153) \cup (1162..1327) \cup (1329..1366) \cup
    (1376..1416) \cup (4256..4293) \cup (4304..4346) \cup (4349..4351) \cup
    (5024..5109) \cup (5112..5117) \cup (7296..7304) \cup (7312..7354) \cup
    (7357..7359) \cup (7424..7467) \cup (7531..7543) \cup (7545..7578) \cup
    (7680..7957) \cup (7960..7965) \cup (7968..8005) \cup (8008..8013) \cup
    (8016..8023) \cup (8031..8061) \cup (8064..8116) \cup (8118..8124) \cup
    (8130..8132) \cup (8134..8140) \cup (8144..8147) \cup (8150..8155) \cup
    (8160..8172) \cup (8178..8180) \cup (8182..8188) \cup (8458..8467) \cup
    (8473..8477) \cup (8490..8493) \cup (8495..8500) \cup (8508..8511) \cup
    (8517..8521) \cup (8544..8575) \cup (8579..8580) \cup (9398..9449) \cup
    (11264..11387) \cup (11390..11492) \cup (11499..11502) \cup (11506..11507)
    \cup (11520..11557) \cup (42560..42605) \cup (42624..42651) \cup
    (42786..42863) \cup (42865..42887) \cup (42891..42894) \cup (42896..42954)
    \cup (42960..42961) \cup (42965..42969) \cup (42997..42998) \cup
    (43824..43866) \cup (43872..43880) \cup (43888..43967) \cup (64256..64262)
    \cup (64275..64279) \cup (65313..65338) \cup (65345..65370) \cup {170,
    181, 186, 895, 902, 908, 4295, 4301, 8025, 8027, 8029, 8126, 8450, 8455,
    8469, 8484, 8486, 8488, 8505, 8526, 11559, 11565, 42963, 43002}

\* the characters with the Unicode property Case_Ignorable
CaseIgnorableCodes ==
    (183..184) \cup (688..879) \cup (884..885) \cup (900..901) \cup
    (1155..1161) \cup (1425..1469) \cup (1473..1474) \cup (1476..1477) \cup
    (1536..1541) \cup (1552..1562) \cup (1611..1631) \cup (1750..1757) \cup
    (1759..1768) \cup (1770..1773) \cup (1840..1866) \cup (1958..1968) \cup
    (2027..2037) \cup (2070..2093) \cup (2137..2139) \cup (2192..2193) \cup
    (2200..2207) \cup (2249..2306) \cup (2369..2376) \cup (2385..2391) \cup
    (2402..2403) \cup (2497..2500) \cup (2530..2531) \cup (2561..2562) \cup
    (2625..2626) \cup (2631..2632) \cup (2635..2637) \cup (2672..2673) \cup
    (2689..2690) \cup (2753..2757) \cup (2759..2760) \cup (2786..2787) \cup
    (2810..2815) \cup (2881..2884) \cup (2901..2902) \cup (2914..2915) \cup
    (3134..3136) \cup (3142..3144) \cup (3146..3149) \cup (3157..3158) \cup
    (3170..3171) \cup (3276..3277) \cup (3298..3299) \cup (3328..3329) \cup
    (3387..3388) \cup (3393..3396) \cup (3426..3427) \cup (3538..3540) \cup
    (3636..3642) \cup (3654..3662) \cup (3764..3772) \cup (3784..3789) \cup
    (3864..3865) \cup (3953..3966) \cup (3968..3972) \cup (3974..3975) \cup
    (3981..3991) \cup (3993..4028) \cup (4141..4144) \cup (4146..4151) \cup
    (4153..4154) \cup (4157..4158) \cup (4184..4185) \cup (4190..4192) \cup
    (4209..4212) \cup (4229..4230) \cup (4957..4959) \cup (5906..5908) \cup
    (5938..5939) \cup (5970..5971) \cup (6002..6003) \cup (6068..6069) \cup
    (6071..6077) \cup (6089..6099) \cup (6155..6159) \cup (6277..6278) \cup
    (6432..6434) \cup (6439..6440) \cup (6457..6459) \cup (6679..6680) \cup
    (6744..6750) \cup (6757..6764) \cup (6771..6780) \cup (6832..6862) \cup
    (6912..6915) \cup (6966..6970) \cup (7019..7027) \cup (7040..7041) \cup
    (7074..7077) \cup (7080..7081) \cup (7083..7085) \cup (7144..7145) \cup
    (7151..7153) \cup (7212..7219) \cup (7222..7223) \cup (7288..7293) \cup
    (7376..7378) \cup (7380..7392) \cup (7394..7400) \cup (7416..7417) \cup
    (7468..7530) \cup (7579..7679) \cup (8127..8129) \cup (8141..8143) \cup
    (8157..8159) \cup (8173..8175) \cup (8189..8190) \cup (8203..8207) \cup
    (8216..8217) \cup (8234..8238) \cup (8288..8292) \cup (8294..8303) \cup
    (8336..8348) \cup (8400..8432) \cup (11388..11389) \cup (11503..11505)
    \cup (11744..11775) \cup (12330..12333) \cup (12337..12341) \cup
    (12441..12446) \cup (12540..12542) \cup (42232..42237) \cup (42607..42610)
    \cup (42612..42621) \cup (42652..42655) \cup (42736..42737) \cup
    (42752..42785) \cup (42888..42890) \cup (42994..42996) \cup (43000..43001)
    \cup (43045..43046) \cup (43204..43205) \cup (43232..43249) \cup
    (43302..43309) \cup (43335..43345) \cup (43392..43394) \cup (43446..43449)
    \cup (43452..43453) \cup (43493..43494) \cup (43561..43566) \cup
    (43569..43570) \cup (43573..43574) \cup (43698..43700) \cup (43703..43704)
    \cup (43710..43711) \cup (43756..43757) \cup (43763..43764) \cup
    (43867..43871) \cup (43881..43883) \cup (64434..64450) \cup (65024..65039)
    \cup (65056..65071) \cup (65438..65439) \cup (65529..65531) \cup {39, 46,
    58, 94, 96, 168, 173, 175, 180, 890, 903, 1369, 1375, 1471, 1479, 1524,
    1564, 1600, 1648, 1807, 1809, 2042, 2045, 2184, 2362, 2364, 2381, 2417,
    2433, 2492, 2509, 2558, 2620, 2641, 2677, 2748, 2765, 2817, 2876, 2879,
    2893, 2946, 3008, 3021, 3072, 3076, 3132, 3201, 3260, 3263, 3270, 3405,
    3457, 3530, 3542, 3633, 3761, 3782, 3893, 3895, 3897, 4038, 4226, 4237,
    4253, 4348, 6086, 6103, 6109, 6211, 6313, 6450, 6683, 6742, 6752, 6754,
    6783, 6823, 6964, 6972, 6978, 7142, 7149, 7405, 7412, 7544, 8125, 8228,
    8231, 8305, 8319, 11631, 11647, 11823, 12293, 12347, 40981, 42508, 42623,
    42864, 43010, 43014, 43019, 43052, 43263, 43443, 43471, 43587, 43596,
    43632, 43644, 43696, 43713, 43741, 43766, 44005, 44008, 44013, 64286,
    65043, 65106, 65109, 65279, 65287, 65294, 65306, 65342, 65344, 65392,
    65507}

\* str.lower() by character, as runs <<first, last, step, delta>>: it adds
\* delta to the codes first, first + step, ... last, and leaves every other
\* code (U+0130, which becomes two characters no string here can hold, apart)
LowerRuns ==
    <<<<65, 90, 1, 32>>, <<192, 214, 1, 32>>, <<216, 222, 1, 32>>, <<256, 302,
    2, 1>>, <<306, 310, 2, 1>>, <<313, 327, 2, 1>>, <<330, 374, 2, 1>>, <<376,
    376, 1, -121>>, <<377, 381, 2, 1>>, <<385, 385, 1, 210>>, <<386, 388, 2,
    1>>, <<390, 390, 1, 206>>, <<391, 391, 1, 1>>, <<393, 394, 1, 205>>,
    <<395, 395, 1, 1>>, <<398, 398, 1, 79>>, <<399, 399, 1, 202>>, <<400, 400,
    1, 203>>, <<401, 401, 1, 1>>, <<403, 403, 1, 205>>, <<404, 404, 1, 207>>,
    <<406, 406, 1, 211>>, <<407, 407, 1, 209>>, <<408, 408, 1, 1>>, <<412,
    412, 1, 211>>, <<413, 413, 1, 213>>, <<415, 415, 1, 214>>, <<416, 420, 2,
    1>>, <<422, 422, 1, 218>>, <<423, 423, 1, 1>>, <<425, 425, 1, 218>>,
    <<428, 428, 1, 1>>, <<430, 430, 1, 218>>, <<431, 431, 1, 1>>, <<433, 434,
    1, 217>>, <<435, 437, 2, 1>>, <<439, 439, 1, 219>>, <<440, 440, 1, 1>>,
    <<444, 444, 1, 1>>, <<452, 452, 1, 2>>, <<453, 453, 1, 1>>, <<455, 455, 1,
    2>>, <<456, 456, 1, 1>>, <<458, 458, 1, 2>>, <<459, 475, 2, 1>>, <<478,
    494, 2, 1>>, <<497, 497, 1, 2>>, <<498, 500, 2, 1>>, <<502, 502, 1, -97>>,
    <<503, 503, 1, -56>>, <<504, 542, 2, 1>>, <<544, 544, 1, -130>>, <<546,
    562, 2, 1>>, <<570, 570, 1, 10795>>, <<571, 571, 1, 1>>, <<573, 573, 1,
    -163>>, <<574, 574, 1, 10792>>, <<577, 577, 1, 1>>, <<579, 579, 1, -195>>,
    <<580, 580, 1, 69>>, <<581, 581, 1, 71>>, <<582, 590, 2, 1>>, <<880, 882,
    2, 1>>, <<886, 886, 1, 1>>, <<895, 895, 1, 116>>, <<902, 902, 1, 38>>,
    <<904, 906, 1, 37>>, <<908, 908, 1, 64>>, <<910, 911, 1, 63>>, <<913, 929,
    1, 32>>, <<931, 939, 1, 32>>, <<975, 975, 1, 8>>, <<984, 1006, 2, 1>>,
    <<1012, 1012, 1, -60>>, <<1015, 1015, 1, 1>>, <<1017, 1017, 1, -7>>,
    <<1018, 1018, 1, 1>>, <<1021, 1023, 1, -130>>, <<1024, 1039, 1, 80>>,
    <<1040, 1071, 1, 32>>, <<1120, 1152, 2, 1>>, <<1162, 1214, 2, 1>>, <<1216,
    1216, 1, 15>>, <<1217, 1229, 2, 1>>, <<1232, 1326, 2, 1>>, <<1329, 1366,
    1, 48>>, <<4256, 4293, 1, 7264>>, <<4295, 4295, 1, 7264>>, <<4301, 4301,
    1, 7264>>, <<5024, 5103, 1, 38864>>, <<5104, 5109, 1, 8>>, <<7312, 7354,
    1, -3008>>, <<7357, 7359, 1, -3008>>, <<7680, 7828, 2, 1>>, <<7838, 7838,
    1, -7615>>, <<7840, 7934, 2, 1>>, <<7944, 7951, 1, -8>>, <<7960, 7965, 1,
    -8>>, <<7976, 7983, 1, -8>>, <<7992, 7999, 1, -8>>, <<8008, 8013, 1, -8>>,
    <<8025, 8031, 2, -8>>, <<8040, 8047, 1, -8>>, <<8072, 8079, 1, -8>>,
    <<8088, 8095, 1, -8>>, <<8104, 8111, 1, -8>>, <<8120, 8121, 1, -8>>,
    <<8122, 8123, 1, -74>>, <<8124, 8124, 1, -9>>, <<8136, 8139, 1, -86>>,
    <<8140, 8140, 1, -9>>, <<8152, 8153, 1, -8>>, <<8154, 8155, 1, -100>>,
    <<8168, 8169, 1, -8>>, <<8170, 8171, 1, -112>>, <<8172, 8172, 1, -7>>,
    <<8184, 8185, 1, -128>>, <<8186, 8187, 1, -126>>, <<8188, 8188, 1, -9>>,
    <<8486, 8486, 1, -7517>>, <<8490, 8490, 1, -8383>>, <<8491, 8491, 1,
    -8262>>, <<8498, 8498, 1, 28>>, <<8544, 8559, 1, 16>>, <<8579, 8579, 1,
    1>>, <<9398, 9423, 1, 26>>, <<11264, 11311, 1, 48>>, <<11360, 11360, 1,
    1>>, <<11362, 11362, 1, -10743>>, <<11363, 11363, 1, -3814>>, <<11364,
    11364, 1, -10727>>, <<11367, 11371, 2, 1>>, <<11373, 11373, 1, -10780>>,
    <<11374, 11374, 1, -10749>>, <<11375, 11375, 1, -10783>>, <<11376, 11376,
    1, -10782>>, <<11378, 11378, 1, 1>>, <<11381, 11381, 1, 1>>, <<11390,
    11391, 1, -10815>>, <<11392, 11490, 2, 1>>, <<11499, 11501, 2, 1>>,
    <<11506, 11506, 1, 1>>, <<42560, 42604, 2, 1>>, <<42624, 42650, 2, 1>>,
    <<42786, 42798, 2, 1>>, <<42802, 42862, 2, 1>>, <<42873, 42875, 2, 1>>,
    <<42877, 42877, 1, -35332>>, <<42878, 42886, 2, 1>>, <<42891, 42891, 1,
    1>>, <<42893, 42893, 1, -42280>>, <<42896, 42898, 2, 1>>, <<42902, 42920,
    2, 1>>, <<42922, 42922, 1, -42308>>, <<42923, 42923, 1, -42319>>, <<42924,
    42924, 1, -42315>>, <<42925, 42925, 1, -42305>>, <<42926, 42926, 1,
    -42308>>, <<42928, 42928, 1, -42258>>, <<42929, 42929, 1, -42282>>,
    <<42930, 42930, 1, -42261>>, <<42931, 42931, 1, 928>>, <<42932, 42946, 2,
    1>>, <<42948, 42948, 1, -48>>, <<42949, 42949, 1, -42307>>, <<42950,
    42950, 1, -35384>>, <<42951, 42953, 2, 1>>, <<42960, 42960, 1, 1>>,
    <<42966, 42968, 2, 1>>, <<42997, 42997, 1, 1>>, <<65313, 65338, 1, 32>>>>

Whitespace == CharsAt(WhitespaceCodes)
LineBreaks == CharsAt(LineBreakCodes)
WordChars == CharsAt(WordCodes)
Cased == CharsAt(CasedCodes)
CaseIgnorable == CharsAt(CaseIgnorableCodes)

\* the decimal digits of value v (the \d class of re on a str is their union)
DecimalDigitsOf == [v \in 0..9 |-> CharsAt({zero + v : zero \in DecimalZeroCodes})]
DecimalDigits == UNION {DecimalDigitsOf[v] : v \in 0..9}

\* c.isspace()
IsSpace(c) == c \in Whitespace

\* the pairs <<code, code of the lower case>> of str.lower()
LowerPairs ==
    UNION {{<<n, n + LowerRuns[r][4]>> :
                n \in {m \in LowerRuns[r][1]..LowerRuns[r][2] :
                          (m - LowerRuns[r][1]) % LowerRuns[r][3] = 0}} :
           r \in 1..Len(LowerRuns)}

\* the code of c.lower() for the characters it changes
LowerOf ==
    [c \in {Chr(pr[1]) : pr \in {q \in LowerPairs : HasChr(q[1])}} |->
        (CHOOSE pr \in LowerPairs : HasChr(pr[1]) /\ Chr(pr[1]) = c)[2]]

\* chr(n) where a string can hold it
ChrOf(n) == IF HasChr(n) THEN Chr(n) ELSE NotHeld(n)

\* c.lower(): it has no value for a character whose lower case no string can
\* hold (U+0181, whose lower case is U+0253, is one)
LowerCh(c) ==
    IF IsUpper(c) THEN LowerChars[CHOOSE i \in 1..26 : UpperChars[i] = c]
    ELSE IF c \in DOMAIN LowerOf THEN ChrOf(LowerOf[c])
    ELSE c

Sigma == Chr(931)

\* TRUE iff the capital sigma at s[i] is in the Final_Sigma context: a cased
\* character before it and none after it, the case-ignorable ones skipped
FinalSigma(s, i) ==
    /\ \E j \in 1..(i - 1) :
          /\ Ch(s, j) \in Cased
          /\ \A k \in (j + 1)..(i - 1) : Ch(s, k) \in CaseIgnorable
    /\ \A j \in (i + 1)..Len(s) :
          \/ Ch(s, j) \notin Cased
          \/ \E k \in (i + 1)..(j - 1) : Ch(s, k) \notin CaseIgnorable

\* the lower case of the character s[i] of s: a capital sigma becomes the
\* final small sigma (U+03C2) in the Final_Sigma context
LowerAt(s, i) ==
    IF Ch(s, i) # Sigma THEN LowerCh(Ch(s, i))
    ELSE IF FinalSigma(s, i) THEN Chr(962)
    ELSE Chr(963)

\* s[a-1:b].lower() within s (the range is halved to keep the evaluation
\* shallow)
RECURSIVE LowerRange(_, _, _)
LowerRange(s, a, b) ==
    IF a > b THEN ""
    ELSE IF a = b THEN LowerAt(s, a)
    ELSE LowerRange(s, a, (a + b) \div 2) \o LowerRange(s, (a + b) \div 2 + 1, b)

\* s.lower()
Lower(s) == LowerRange(s, 1, Len(s))

\* s.strip(chars)
StripChars(s, chars) ==
    LET keep == {i \in 1..Len(s) : Ch(s, i) \notin chars}
    IN IF keep = {} THEN ""
       ELSE SubSeq(s, CHOOSE i \in keep : \A j \in keep : i <= j,
                      CHOOSE i \in keep : \A j \in keep : i >= j)

\* s.strip()
Strip(s) == StripChars(s, Whitespace)

\* the index after the run of whitespace that starts at p
SkipWs(s, p) ==
    CHOOSE q \in p..(Len(s) + 1) :
        /\ ~IsSpace(Ch(s, q))
        /\ \A r \in p..(q - 1) : IsSpace(Ch(s, r))

\* the least index >= from of a character of chars, Len(s) + 1 if none
FindAny(s, chars, from) ==
    CHOOSE q \in from..(Len(s) + 1) :
        /\ q = Len(s) + 1 \/ Ch(s, q) \in chars
        /\ \A r \in from..(q - 1) : Ch(s, r) \notin chars

\* s.count(k): the number of non-overlapping occurrences, scanning from the left
RECURSIVE CountFrom(_, _, _)
CountFrom(s, k, from) ==
    LET i == Find(s, k, from)
    IN IF i = 0 THEN 0 ELSE 1 + CountFrom(s, k, i + Len(k))

Count(s, k) == CountFrom(s, k, 1)

\* s.split(sep) for a separator found from `from` on, as a sequence of strings
RECURSIVE SplitOn(_, _, _)
SplitOn(s, sep, from) ==
    LET at == Find(s, sep, from)
    IN IF at = 0 THEN <<Slice(s, from, Len(s) + 1)>>
       ELSE <<Slice(s, from, at)>> \o SplitOn(s, sep, at + Len(sep))

(***************************************************************************)
(* json.loads.  A JSON value is a record with the same four fields for     *)
(* every kind, so that any two values can be compared:                     *)
(*   t     "obj" | "arr" | "str" | "num" | "lit"                           *)
(*   s     the text of a string, the lexeme of a number, or the literal    *)
(*   keys  the keys of an object, in insertion order                       *)
(*   items the members of an array, or the values of an object's keys      *)
(* The decoder follows json.decoder / json.scanner: strict strings (a raw  *)
(* control character is an error), no trailing commas, NaN and Infinity    *)
(* accepted, "Extra data" after the value is an error.  A \u escape of a   *)
(* character that no string of this module can hold (a surrogate among     *)
(* them) cannot be decoded here: the scan fails on it.                     *)
(***************************************************************************)

JStr(x) == [t |-> "str", s |-> x, keys |-> <<>>, items |-> <<>>]
JNum(x) == [t |-> "num", s |-> x, keys |-> <<>>, items |-> <<>>]
JLit(x) == [t |-> "lit", s |-> x, keys |-> <<>>, items |-> <<>>]
JArr(xs) == [t |-> "arr", s |-> "", keys |-> <<>>, items |-> xs]
JObj(ks, xs) == [t |-> "obj", s |-> "", keys |-> ks, items |-> xs]

\* Python None (json null)
None == JLit("null")
\* Python []
EmptyList == JArr(<<>>)

\* str(n), n >= 0
RECURSIVE Str(_)
Str(n) ==
    LET digit == <<"0", "1", "2", "3", "4", "5", "6", "7", "8", "9">>
    IN IF n < 10 THEN digit[n + 1] ELSE Str(n \div 10) \o digit[(n % 10) + 1]

IsDict(v) == v.t = "obj"
IsList(v) == v.t = "arr"

\* 'k' in d
HasKey(d, k) == \E i \in 1..Len(d.keys) : d.keys[i] = k

\* d.get(k, default)
Get(d, k, default) ==
    IF HasKey(d, k) THEN d.items[CHOOSE i \in 1..Len(d.keys) : d.keys[i] = k] ELSE default

\* d[k] = v on a dict: a repeated key keeps its place and takes the last value
DictSet(d, k, v) ==
    IF HasKey(d, k)
    THEN JObj(d.keys, [d.items EXCEPT ![CHOOSE i \in 1..Len(d.keys) : d.keys[i] = k] = v])
    ELSE JObj(Append(d.keys, k), Append(d.items, v))

\* what a scan gives: ok with the value and the index after it, or the exception
\* raised: exc names its class, msg is the message it was raised with and pos,
\* for a json.JSONDecodeError, the index in the text (from 1) it was raised at
Raised(exc, msg) ==
    [ok |-> FALSE, exc |-> exc, msg |-> msg, pos |-> 0, val |-> None, end |-> 0]
ErrorAt(msg, p) ==
    [ok |-> FALSE, exc |-> "JSONDecodeError", msg |-> msg, pos |-> p, val |-> None, end |-> 0]
Ok(v, e) == [ok |-> TRUE, exc |-> "", msg |-> "", pos |-> 0, val |-> v, end |-> e]

\* no candidate was there to load: what the loops over the candidates of a
\* pattern start from
Fail == ErrorAt("", 0)

\* except json.JSONDecodeError catches what the load raised
Caught(loaded) == ~loaded.ok /\ loaded.exc = "JSONDecodeError"

\* the load raised an exception that except json.JSONDecodeError lets through
Escapes(loaded) == ~loaded.ok /\ loaded.exc # "JSONDecodeError"

\* the whitespace json skips (WHITESPACE_STR of json.decoder)
JsonWhitespace == {" ", "\t", "\n", "\r"}

\* the index after the run of json whitespace that starts at p
SkipJsonWs(s, p) ==
    CHOOSE q \in p..(Len(s) + 1) :
        /\ Ch(s, q) \notin JsonWhitespace
        /\ \A r \in p..(q - 1) : Ch(s, r) \in JsonWhitespace

\* the character a one-letter backslash escape stands for (BACKSLASH of
\* json.decoder), "" when the letter is not one of them
Unescape(c) ==
    CASE c = "\"" -> "\""
      [] c = "\\" -> "\\"
      [] c = "/" -> "/"
      [] c = "b" -> Chr(8)
      [] c = "f" -> "\f"
      [] c = "n" -> "\n"
      [] c = "r" -> "\r"
      [] c = "t" -> "\t"
      [] OTHER -> ""

HexDigits == "0123456789abcdef"

\* int(c, 16) of a hexadecimal digit
HexValue(c) == (CHOOSE i \in 1..16 : Ch(HexDigits, i) = LowerCh(c)) - 1

IsHex(c) == IsDigit(c) \/ (IsAlpha(c) /\ \E i \in 11..16 : Ch(HexDigits, i) = LowerCh(c))

\* the code a \uXXXX escape gives, its four digits starting at p; -1 when they
\* are not four hexadecimal digits
EscapeCode(s, p) ==
    IF \A k \in 0..3 : IsHex(Ch(s, p + k))
    THEN 4096 * HexValue(Ch(s, p)) + 256 * HexValue(Ch(s, p + 1))
         + 16 * HexValue(Ch(s, p + 2)) + HexValue(Ch(s, p + 3))
    ELSE -1

\* the characters that end a STRINGCHUNK: the quote, the backslash, and the
\* control characters U+0000..U+001F
StringStops == {"\"", "\\"} \cup CharsAt(0..31)

\* raise_errmsg of the C scanner: it calls JSONDecodeError(msg, s, pos) with room
\* levels of recursion left, and the call, the frame of __init__ and the call of
\* ValueError.__init__ in it take one level each; with fewer left the
\* RecursionError of the level that is missing is raised instead
RaiseErrmsg(msg, p, room) ==
    IF room >= 3 THEN ErrorAt(msg, p)
    ELSE Raised("RecursionError",
                IF room = 1 THEN "maximum recursion depth exceeded"
                ELSE "maximum recursion depth exceeded while calling a Python object")

\* scanstring, begin being the index of the opening quote and p where the next
\* STRINGCHUNK starts: it takes the characters up to the next quote, backslash
\* or control character.  A \uXXXX escape stands for chr of its code (a pair of
\* surrogate escapes for the character beyond U+FFFF they encode), so a string
\* with an escape of a character no string of this module holds has no value
\* here
RECURSIVE ScanString(_, _, _, _, _)
ScanString(s, begin, p, acc, room) ==
    LET Escape(q) ==
            IF Ch(s, q + 1) = ""
            THEN RaiseErrmsg("Unterminated string starting at", begin, room)
            ELSE IF Unescape(Ch(s, q + 1)) # ""
            THEN ScanString(s, begin, q + 2,
                            acc \o Slice(s, p, q) \o Unescape(Ch(s, q + 1)), room)
            ELSE IF Ch(s, q + 1) # "u" THEN RaiseErrmsg("Invalid \\escape", q, room)
            ELSE IF EscapeCode(s, q + 2) < 0
            THEN RaiseErrmsg("Invalid \\uXXXX escape", q + 1, room)
            ELSE ScanString(s, begin, q + 6,
                            acc \o Slice(s, p, q) \o ChrOf(EscapeCode(s, q + 2)), room)
        Chunk(q) ==
            IF Ch(s, q) = "" THEN RaiseErrmsg("Unterminated string starting at", begin, room)
            ELSE IF Ch(s, q) = "\"" THEN Ok(JStr(acc \o Slice(s, p, q)), q + 1)
            ELSE IF Ch(s, q) = "\\" THEN Escape(q)
            ELSE RaiseErrmsg("Invalid control character at", q, room)
    IN Chunk(FindAny(s, StringStops, p))

\* the index after the run of digits that starts at p
SkipDigits(s, p) ==
    CHOOSE q \in p..(Len(s) + 1) :
        /\ ~IsDigit(Ch(s, q))
        /\ \A r \in p..(q - 1) : IsDigit(Ch(s, r))

\* the index after the exponent that starts at p, p when none does:
\* ([eE][-+]?[0-9]+)?
SkipExponent(s, p) ==
    IF Ch(s, p) \notin {"e", "E"} THEN p
    ELSE IF Ch(s, p + 1) \in {"-", "+"} /\ IsDigit(Ch(s, p + 2)) THEN SkipDigits(s, p + 2)
    ELSE IF IsDigit(Ch(s, p + 1)) THEN SkipDigits(s, p + 1)
    ELSE p

\* the most digits int() reads from a str (sys.int_info.default_max_str_digits)
MaxStrDigits == 4300

\* str(e) of the ValueError int() raises for a str of n digits
IntLimitError(n) ==
    "Exceeds the limit (" \o Str(MaxStrDigits)
    \o " digits) for integer string conversion: value has " \o Str(n)
    \o " digits; use sys.set_int_max_str_digits() to increase the limit"

\* the number of the scanner: (-?(?:0|[1-9][0-9]*))(\.[0-9]+)?([eE][-+]?[0-9]+)?
\* A lexeme without fraction and exponent goes to int(), which raises ValueError
\* when it has more than MaxStrDigits digits; any other goes to float()
ScanNumber(s, p) ==
    LET Lexeme(d, intEnd, end) ==
            IF end = intEnd /\ intEnd - d > MaxStrDigits
            THEN Raised("ValueError", IntLimitError(intEnd - d))
            ELSE Ok(JNum(Slice(s, p, end)), end)
        Fraction(d, intEnd) ==
            Lexeme(d, intEnd,
                   SkipExponent(s, IF Ch(s, intEnd) = "." /\ IsDigit(Ch(s, intEnd + 1))
                                   THEN SkipDigits(s, intEnd + 1) ELSE intEnd))
        Whole(d) ==
            IF ~IsDigit(Ch(s, d)) THEN ErrorAt("Expecting value", p)
            ELSE Fraction(d, IF Ch(s, d) = "0" THEN d + 1 ELSE SkipDigits(s, d))
    IN Whole(IF Ch(s, p) = "-" THEN p + 1 ELSE p)

\* sys.getrecursionlimit()
RecursionLimit == 1000

\* the containers json.loads can enter one inside the other when it is called
\* from the frames-th frame of the stack (1 for the module): json.loads,
\* JSONDecoder.decode, raw_decode and the call of the scanner come on top of the
\* caller's frames, and every container the scanner enters is one level more
\* (Py_EnterRecursiveCall)
JsonRoom(frames) == RecursionLimit - frames - 4

\* the RecursionError of a container entered with no level left
TooDeep(container) ==
    Raised("RecursionError",
           "maximum recursion depth exceeded while decoding a JSON " \o container
           \o " from a unicode string")

RECURSIVE ScanOnce(_, _, _)
RECURSIVE ScanArrayItems(_, _, _, _)
RECURSIVE ScanObjectMembers(_, _, _, _)

\* JSONArray after its first value position: p is where the next value starts,
\* room the levels of recursion left inside the array
ScanArrayItems(s, p, acc, room) ==
    LET Rest(items, q) ==
            IF Ch(s, q) = "]" THEN Ok(JArr(items), q + 1)
            ELSE IF Ch(s, q) = "," THEN ScanArrayItems(s, SkipJsonWs(s, q + 1), items, room)
            ELSE RaiseErrmsg("Expecting ',' delimiter", q, room)
        Value(v) == IF ~v.ok THEN v ELSE Rest(Append(acc, v.val), SkipJsonWs(s, v.end))
    IN Value(ScanOnce(s, p, room))

\* JSONObject: p is where the next key's opening quote must be
ScanObjectMembers(s, p, acc, room) ==
    LET Rest(members, q) ==
            IF Ch(s, q) = "}" THEN Ok(members, q + 1)
            ELSE IF Ch(s, q) = "," THEN ScanObjectMembers(s, SkipJsonWs(s, q + 1), members, room)
            ELSE RaiseErrmsg("Expecting ',' delimiter", q, room)
        Value(k, v) ==
            IF ~v.ok THEN v ELSE Rest(DictSet(acc, k.val.s, v.val), SkipJsonWs(s, v.end))
        Colon(k, c) ==
            IF Ch(s, c) # ":" THEN RaiseErrmsg("Expecting ':' delimiter", c, room)
            ELSE Value(k, ScanOnce(s, SkipJsonWs(s, c + 1), room))
        Key(k) == IF ~k.ok THEN k ELSE Colon(k, SkipJsonWs(s, k.end))
    IN IF Ch(s, p) # "\""
       THEN RaiseErrmsg("Expecting property name enclosed in double quotes", p, room)
       ELSE Key(ScanString(s, p, p + 1, "", room))

\* scan_once of json.scanner (c_make_scanner), room being the levels of
\* recursion left, one of which every container entered takes.  A value that is
\* missing is reported by StopIteration, out of which raw_decode makes the
\* JSONDecodeError when the scanner has returned
ScanOnce(s, p, room) ==
    CASE Ch(s, p) = "" -> ErrorAt("Expecting value", p)
      [] Ch(s, p) = "\"" -> ScanString(s, p, p + 1, "", room)
      [] Ch(s, p) = "{" ->
            IF room = 0 THEN TooDeep("object")
            ELSE IF Ch(s, SkipJsonWs(s, p + 1)) = "}"
            THEN Ok(JObj(<<>>, <<>>), SkipJsonWs(s, p + 1) + 1)
            ELSE ScanObjectMembers(s, SkipJsonWs(s, p + 1), JObj(<<>>, <<>>), room - 1)
      [] Ch(s, p) = "[" ->
            IF room = 0 THEN TooDeep("array")
            ELSE IF Ch(s, SkipJsonWs(s, p + 1)) = "]"
            THEN Ok(EmptyList, SkipJsonWs(s, p + 1) + 1)
            ELSE ScanArrayItems(s, SkipJsonWs(s, p + 1), <<>>, room - 1)
      [] StartsAt(s, "null", p) -> Ok(JLit("null"), p + 4)
      [] StartsAt(s, "true", p) -> Ok(JLit("true"), p + 4)
      [] StartsAt(s, "false", p) -> Ok(JLit("false"), p + 5)
      [] IsDigit(Ch(s, p)) \/ (Ch(s, p) = "-" /\ IsDigit(Ch(s, p + 1))) -> ScanNumber(s, p)
      [] StartsAt(s, "NaN", p) -> Ok(JLit("NaN"), p + 3)
      [] StartsAt(s, "Infinity", p) -> Ok(JLit("Infinity"), p + 8)
      [] StartsAt(s, "-Infinity", p) -> Ok(JLit("-Infinity"), p + 9)
      [] OTHER -> ErrorAt("Expecting value", p)

\* the index of the last line feed of s before p, 0 if there is none
LastLineFeed(s, p) ==
    IF \E k \in 1..(p - 1) : Ch(s, k) = "\n"
    THEN CHOOSE k \in 1..(p - 1) :
            Ch(s, k) = "\n" /\ \A j \in (k + 1)..(p - 1) : Ch(s, j) # "\n"
    ELSE 0

\* str(e) of JSONDecodeError(msg, s, pos), p being pos + 1:
\* '%s: line %d column %d (char %d)'
DecodeErrorStr(s, msg, p) ==
    msg \o ": line " \o Str(Cardinality({k \in 1..(p - 1) : Ch(s, k) = "\n"}) + 1)
    \o " column " \o Str(p - LastLineFeed(s, p)) \o " (char " \o Str(p - 1) \o ")"

\* the byte order mark json.loads refuses at the start of a str
ByteOrderMark == Chr(65279)

\* json.loads(s) called from the frames-th frame of the stack: ok is FALSE where
\* Python raises, exc naming the exception (json.JSONDecodeError, the ValueError
\* of an integer too long for int(), the RecursionError of containers nested too
\* deep) and msg being str(e)
json_loads(s, frames) ==
    LET Loaded(v) ==
            IF v.exc # "JSONDecodeError" THEN v
            ELSE [v EXCEPT !.msg = DecodeErrorStr(s, v.msg, v.pos)]
        Whole(v) ==
            IF ~v.ok \/ SkipJsonWs(s, v.end) = Len(s) + 1 THEN v
            ELSE ErrorAt("Extra data", SkipJsonWs(s, v.end))
    IN IF Ch(s, 1) = ByteOrderMark
       THEN Loaded(ErrorAt("Unexpected UTF-8 BOM (decode using utf-8-sig)", 1))
       ELSE Loaded(Whole(ScanOnce(s, SkipJsonWs(s, 1), JsonRoom(frames))))


(***************************************************************************)
(* The regular expressions of the parsers, as re.findall / re.search       *)
(* evaluate them: leftmost match first, non-overlapping, lazy quantifiers  *)
(* stopping at the first position where the rest of the pattern matches.   *)
(***************************************************************************)

\* re.findall of json_patterns[0] (open bracket, lazily anything, close bracket)
\* and json_patterns[1] (the same with braces)
RECURSIVE FindAllSpans(_, _, _, _)
FindAllSpans(s, open, close, from) ==
    LET Span(i, j) ==
            IF j = 0 THEN <<>>
            ELSE <<Slice(s, i, j + 1)>> \o FindAllSpans(s, open, close, j + 1)
        Open(i) == IF i = 0 THEN <<>> ELSE Span(i, Find(s, close, i + 1))
    IN Open(Find(s, open, from))

\* three backquotes (written with the tilde, see Alphabet)
Fence == "~~~"

\* the first closing bracket from k on that is followed by optional whitespace
\* and a fence of three backquotes; 0 when there is none
RECURSIVE CloserBeforeFence(_, _)
CloserBeforeFence(s, k) ==
    LET Closer(c) ==
            IF c = 0 THEN 0
            ELSE IF StartsAt(s, Fence, SkipWs(s, c + 1)) THEN c
            ELSE CloserBeforeFence(s, c + 1)
    IN Closer(Find(s, "]", k))

\* re.findall of json_patterns[2] (fence is three backquotes and json) and of
\* json_patterns[3] (fence is three backquotes): the captured bracket spans
RECURSIVE FindAllFenced(_, _, _)
FindAllFenced(s, fence, from) ==
    LET Capture(i, a, k) ==
            IF k = 0 THEN FindAllFenced(s, fence, i + 1)
            ELSE <<Slice(s, a, k + 1)>>
                 \o FindAllFenced(s, fence, SkipWs(s, k + 1) + Len(Fence))
        Bracket(i, a) ==
            IF Ch(s, a) # "[" THEN FindAllFenced(s, fence, i + 1)
            ELSE Capture(i, a, CloserBeforeFence(s, a + 1))
        Opening(i) == IF i = 0 THEN <<>> ELSE Bracket(i, SkipWs(s, i + Len(fence)))
    IN Opening(Find(s, fence, from))

\* re.findall(vendor_patterns[0], s, re.IGNORECASE) on the text s with its
\* lower-cased copy: a quoted name key, a colon, optional whitespace and a quoted
\* non-empty value; the captured values
RECURSIVE FindAllNames(_, _, _)
FindAllNames(s, lowered, from) ==
    LET Value(i, a, b) ==
            IF b < a + 2 THEN FindAllNames(s, lowered, i + 1)
            ELSE <<Slice(s, a + 1, b)>> \o FindAllNames(s, lowered, b + 1)
        Quote(i, a) ==
            IF Ch(s, a) # "\"" THEN FindAllNames(s, lowered, i + 1)
            ELSE Value(i, a, Find(s, "\"", a + 1))
        Key(i) == IF i = 0 THEN <<>> ELSE Quote(i, SkipWs(s, i + 7))
    IN Key(Find(lowered, "\"name\":", from))

(***************************************************************************)
(* test_claude_response.py                                                 *)
(***************************************************************************)

\* extract_vendors_from_text: one partial record per match of vendor_patterns[0]
extract_vendors_from_text(text) ==
    LET Records(names) ==
            JArr([i \in 1..Len(names) |->
                    JObj(<<"name", "source">>, <<JStr(names[i]), JStr("regex_extraction")>>)])
    IN Records(FindAllNames(text, Lower(text), 1))

\* the frames on the stack in improved_json_parser when the script calls it
\* (test_claude_response.py:124): the module's and its own
ParserFrames == 2

\* the first candidate, from the i-th on, of a findall result that json.loads
\* accepts, or the exception of the first one that raises another exception
\* than json.JSONDecodeError
RECURSIVE FirstValid(_, _)
FirstValid(matches, i) ==
    LET Candidate(loaded) == IF Caught(loaded) THEN FirstValid(matches, i + 1) ELSE loaded
    IN IF i > Len(matches) THEN Fail ELSE Candidate(json_loads(matches[i], ParserFrames))

\* json_patterns, in the order the loop tries them
PatternMatches(text, n) ==
    CASE n = 1 -> FindAllSpans(text, "[", "]", 1)
      [] n = 2 -> FindAllSpans(text, "{", "}", 1)
      [] n = 3 -> FindAllFenced(text, Fence \o "json", 1)
      [] n = 4 -> FindAllFenced(text, Fence, 1)

\* the for loop over json_patterns: the first pattern with a valid candidate;
\* an exception other than json.JSONDecodeError leaves the loop
RECURSIVE TryPatterns(_, _)
TryPatterns(text, n) ==
    LET Pattern(found) == IF Caught(found) THEN TryPatterns(text, n + 1) ELSE found
    IN IF n > 4 THEN Fail ELSE Pattern(FirstValid(PatternMatches(text, n), 1))

\* improved_json_parser: the value returned (every exception is caught inside).
\* whole is Method 1, spans the pattern loop, vendors the text fallback; an
\* exception that is not a json.JSONDecodeError goes to the outer except
\* Exception, which returns the empty list
improved_json_parser(response_text_) ==
    LET Return(whole, spans, vendors) ==
            IF whole.ok THEN whole.val
            ELSE IF Escapes(whole) THEN EmptyList
            ELSE IF spans.ok THEN spans.val
            ELSE IF Escapes(spans) THEN EmptyList
            ELSE IF vendors.items # <<>> THEN vendors
            ELSE EmptyList
    IN Return(json_loads(response_text_, ParserFrames),
              TryPatterns(response_text_, 1),
              extract_vendors_from_text(response_text_))

(***************************************************************************)
(* debug_json_parsing.py                                                   *)
(***************************************************************************)

\* re.search of the lazy bracket pattern with re.DOTALL: the matched span, or the
\* empty string when there is no match
SearchArraySpan(s) ==
    LET Span(i, j) == IF j = 0 THEN "" ELSE Slice(s, i, j + 1)
        Open(i) == IF i = 0 THEN "" ELSE Span(i, Find(s, "]", i + 1))
    IN Open(Find(s, "[", 1))

\* the frames on the stack in debug_parse_json_response when the script calls
\* it (debug_json_parsing.py:95): the module's and its own
DebugFrames == 2

\* debug_parse_json_response: the value returned; an exception that is not a
\* json.JSONDecodeError goes to the outer except Exception, after which the
\* empty list is returned
debug_parse_json_response(response_text_) ==
    LET Return(span, first, whole) ==
            IF span # "" /\ first.ok THEN first.val
            ELSE IF span # "" /\ Escapes(first) THEN EmptyList
            ELSE IF whole.ok THEN whole.val
            ELSE EmptyList
    IN Return(SearchArraySpan(response_text_),
              json_loads(SearchArraySpan(response_text_), DebugFrames),
              json_loads(response_text_, DebugFrames))


(***************************************************************************)
(* claude_vendor_extractor.py                                              *)
(***************************************************************************)

\* the Vendor dataclass; every field holds the JSON value it was given
Vendor(name, business_type, products, location, contact_info, description, confidence) ==
    [name |-> name, business_type |-> business_type, products |-> products,
     location |-> location, contact_info |-> contact_info,
     description |-> description, confidence |-> confidence]

\* the default of Vendor.confidence and of vendor_data.get('confidence', 0.8)
ClaudeDefaultConfidence == JNum("0.8")

\* Vendor(...) from one parsed record, as the loop of _extract_with_claude builds it
VendorFromData(vendor_data) ==
    Vendor(Get(vendor_data, "name", JStr("")),
           Get(vendor_data, "business_type", None),
           Get(vendor_data, "products", None),
           Get(vendor_data, "location", None),
           Get(vendor_data, "contact_info", None),
           Get(vendor_data, "description", None),
           Get(vendor_data, "confidence", ClaudeDefaultConfidence))

\* the elements a for loop over a parsed value visits that are dicts: the items of
\* a list; a dict yields its keys and a str its characters, none of them a dict
DictElements(v) == IF IsList(v) THEN SelectSeq(v.items, IsDict) ELSE <<>>

HasName(d) == HasKey(d, "name")

\* the frames on the stack in _extract_with_claude, its own included, on the paths
\* the repository calls it by.  With --test-url: the module's, main's and
\* extract_vendors_from_page's (claude_vendor_extractor.py:316, 297, 72)
TestUrlFrames == 4

\* in a batch started by main: the module's, main's, process_vendor_pages' and
\* extract_vendors_from_page's (claude_vendor_extractor.py:316, 309, 236, 72;
\* network_pipeline.py:466, 429)
BatchFrames == 5

\* in a batch started by run_complete_pipeline: one more, between main's and
\* process_vendor_pages' (network_pipeline.py:466, 463, 148)
PipelineFrames == 6

\* the depths process_vendor_pages makes its calls at
PagesFrames == {BatchFrames, PipelineFrames}

ClaudeFrames == {TestUrlFrames} \cup PagesFrames

\* the try block of _extract_with_claude, called with frames frames on the stack:
\* exc names the exception that leaves it ("" when none does), vendors is the
\* list it returns
ExtractWithClaudeBody(api_ok, response_text_, frames) ==
    LET Vendors(kept) == [i \in 1..Len(kept) |-> VendorFromData(kept[i])]
        Body(parsed) ==
            IF ~api_ok THEN [exc |-> "APIError", vendors |-> <<>>]
            ELSE IF Escapes(parsed) THEN [exc |-> parsed.exc, vendors |-> <<>>]
            ELSE IF parsed.ok /\ parsed.val.t \in {"num", "lit"}
                 THEN [exc |-> "TypeError", vendors |-> <<>>]
            ELSE [exc |-> "",
                  vendors |-> Vendors(SelectSeq(DictElements(IF parsed.ok THEN parsed.val
                                                             ELSE EmptyList), HasName))]
    IN Body(json_loads(response_text_, frames))

\* _extract_with_claude: except Exception returns the empty list
extract_with_claude(api_ok, response_text_, frames) ==
    LET Return(body) == IF body.exc # "" THEN <<>> ELSE body.vendors
    IN Return(ExtractWithClaudeBody(api_ok, response_text_, frames))

(***************************************************************************)
(* llm_vendor_extractor.py                                                 *)
(***************************************************************************)

\* the default of vendor_dict.get('confidence', 0.5)
LLMDefaultConfidence == JNum("0.5")

\* the characters below U+007F
AsciiChars == CharsAt(1..126)

\* what float() reads for a character of its argument
\* (_PyUnicode_TransformDecimalAndSpaceToASCII): a whitespace character beyond
\* ASCII as a space, a decimal digit as the ASCII digit of its value, any other
\* character beyond ASCII as a question mark
FloatChar(c) ==
    IF c \in AsciiChars THEN c
    ELSE IF c \in Whitespace THEN " "
    ELSE IF c \in DecimalDigits THEN Ch("0123456789", 1 + CHOOSE v \in 0..9 : c \in DecimalDigitsOf[v])
    ELSE "?"

RECURSIVE FloatChars(_, _, _)
FloatChars(s, a, b) ==
    IF a > b THEN ""
    ELSE IF a = b THEN FloatChar(Ch(s, a))
    ELSE FloatChars(s, a, (a + b) \div 2) \o FloatChars(s, (a + b) \div 2 + 1, b)

\* Py_ISSPACE
CSpaces == CharsAt((9..13) \cup {32})

\* the text float() parses: the characters as it reads them, the whitespace
\* at both ends stripped
FloatText(x) == StripChars(FloatChars(x, 1, Len(x)), CSpaces)

\* an underscore is allowed between two digits only
ValidUnderscores(text) ==
    \A i \in 1..Len(text) :
        Ch(text, i) = "_" => IsDigit(Ch(text, i - 1)) /\ IsDigit(Ch(text, i + 1))

RECURSIVE WithoutUnderscores(_)
WithoutUnderscores(text) ==
    IF Find(text, "_", 1) = 0 THEN text
    ELSE Slice(text, 1, Find(text, "_", 1))
         \o WithoutUnderscores(Slice(text, Find(text, "_", 1) + 1, Len(text) + 1))

\* the index after the sign that may start the text
AfterSign(text) == IF Ch(text, 1) \in {"+", "-"} THEN 2 ELSE 1

\* the text after its sign is inf, infinity or nan in any case
IsInfinityText(text) == Lower(Slice(text, AfterSign(text), Len(text) + 1)) \in {"inf", "infinity"}
IsNanText(text) == Lower(Slice(text, AfterSign(text), Len(text) + 1)) = "nan"

\* the text is a decimal number of float(): a sign, digits with at most one
\* point among them and at least one digit, an exponent
IsDecimalText(text) ==
    LET Exponent(digits, end) ==
            digits >= 1 /\ SkipExponent(text, end) = Len(text) + 1
        Fraction(from, intEnd) ==
            IF Ch(text, intEnd) = "."
            THEN Exponent(SkipDigits(text, intEnd + 1) - from - 1, SkipDigits(text, intEnd + 1))
            ELSE Exponent(intEnd - from, intEnd)
    IN Fraction(AfterSign(text), SkipDigits(text, AfterSign(text)))

\* float(x) of a str: exc names the exception raised, val is the float
FloatOfText(text) ==
    CASE ~ValidUnderscores(text) -> [exc |-> "ValueError", val |-> None]
      [] IsInfinityText(text) ->
            [exc |-> "", val |-> JLit(IF Ch(text, 1) = "-" THEN "-Infinity" ELSE "Infinity")]
      [] IsNanText(text) -> [exc |-> "", val |-> JLit("NaN")]
      [] IsDecimalText(WithoutUnderscores(text)) ->
            [exc |-> "", val |-> JNum(WithoutUnderscores(text))]
      [] OTHER -> [exc |-> "ValueError", val |-> None]

\* the least int that float() does not take, 2^1024 - 2^970: it rounds to 2^1024,
\* beyond the greatest double
FloatLimit ==
    "17976931348623158079372897140530341507993413271003782693617377898044496829276475094664901797758720"
    \o "70963302864166928879109465555478519404026306574886715058206819089020007083836762738548458177115317"
    \o "64475730270069855571366959622842914819860834936475292719074168444365510704342711559699508093042880"
    \o "177904174497792"

\* a < b for two strings of ASCII digits of the same length
DigitsLess(a, b) ==
    \E i \in 1..Len(a) :
        /\ SubSeq(a, 1, i - 1) = SubSeq(b, 1, i - 1)
        /\ \E d \in 1..10, e \in 1..10 :
              d < e /\ Ch(a, i) = Ch("0123456789", d) /\ Ch(b, i) = Ch("0123456789", e)

\* the lexeme of a json number is an integer that float() does not take
\* (OverflowError: int too large to convert to float)
IntTooLarge(lexeme) ==
    LET Digits(digits) ==
            \/ Len(digits) > Len(FloatLimit)
            \/ Len(digits) = Len(FloatLimit) /\ ~DigitsLess(digits, FloatLimit)
    IN /\ FindAny(lexeme, {".", "e", "E"}, 1) = Len(lexeme) + 1
       /\ Digits(IF Ch(lexeme, 1) = "-" THEN Slice(lexeme, 2, Len(lexeme) + 1) ELSE lexeme)

\* the codes of the characters for which str.isprintable() is false
UnprintableCodes ==
    (0..31) \cup (127..160) \cup (888..889) \cup (896..899) \cup (1367..1368)
    \cup (1419..1420) \cup (1480..1487) \cup (1515..1518) \cup (1525..1541)
    \cup (1806..1807) \cup (1867..1868) \cup (1970..1983) \cup (2043..2044)
    \cup (2094..2095) \cup (2140..2141) \cup (2155..2159) \cup (2191..2199)
    \cup (2445..2446) \cup (2449..2450) \cup (2483..2485) \cup (2490..2491)
    \cup (2501..2502) \cup (2505..2506) \cup (2511..2518) \cup (2520..2523)
    \cup (2532..2533) \cup (2559..2560) \cup (2571..2574) \cup (2577..2578)
    \cup (2618..2619) \cup (2627..2630) \cup (2633..2634) \cup (2638..2640)
    \cup (2642..2648) \cup (2655..2661) \cup (2679..2688) \cup (2746..2747)
    \cup (2766..2767) \cup (2769..2783) \cup (2788..2789) \cup (2802..2808)
    \cup (2829..2830) \cup (2833..2834) \cup (2874..2875) \cup (2885..2886)
    \cup (2889..2890) \cup (2894..2900) \cup (2904..2907) \cup (2916..2917)
    \cup (2936..2945) \cup (2955..2957) \cup (2966..2968) \cup (2976..2978)
    \cup (2981..2983) \cup (2987..2989) \cup (3002..3005) \cup (3011..3013)
    \cup (3022..3023) \cup (3025..3030) \cup (3032..3045) \cup (3067..3071)
    \cup (3130..3131) \cup (3150..3156) \cup (3163..3164) \cup (3166..3167)
    \cup (3172..3173) \cup (3184..3190) \cup (3258..3259) \cup (3278..3284)
    \cup (3287..3292) \cup (3300..3301) \cup (3315..3327) \cup (3408..3411)
    \cup (3428..3429) \cup (3479..3481) \cup (3518..3519) \cup (3527..3529)
    \cup (3531..3534) \cup (3552..3557) \cup (3568..3569) \cup (3573..3584)
    \cup (3643..3646) \cup (3676..3712) \cup (3774..3775) \cup (3790..3791)
    \cup (3802..3803) \cup (3808..3839) \cup (3949..3952) \cup (4059..4095)
    \cup (4296..4300) \cup (4302..4303) \cup (4686..4687) \cup (4702..4703)
    \cup (4750..4751) \cup (4790..4791) \cup (4806..4807) \cup (4886..4887)
    \cup (4955..4956) \cup (4989..4991) \cup (5018..5023) \cup (5110..5111)
    \cup (5118..5119) \cup (5789..5791) \cup (5881..5887) \cup (5910..5918)
    \cup (5943..5951) \cup (5972..5983) \cup (6004..6015) \cup (6110..6111)
    \cup (6122..6127) \cup (6138..6143) \cup (6170..6175) \cup (6265..6271)
    \cup (6315..6319) \cup (6390..6399) \cup (6444..6447) \cup (6460..6463)
    \cup (6465..6467) \cup (6510..6511) \cup (6517..6527) \cup (6572..6575)
    \cup (6602..6607) \cup (6619..6621) \cup (6684..6685) \cup (6781..6782)
    \cup (6794..6799) \cup (6810..6815) \cup (6830..6831) \cup (6863..6911)
    \cup (6989..6991) \cup (7156..7163) \cup (7224..7226) \cup (7242..7244)
    \cup (7305..7311) \cup (7355..7356) \cup (7368..7375) \cup (7419..7423)
    \cup (7958..7959) \cup (7966..7967) \cup (8006..8007) \cup (8014..8015)
    \cup (8062..8063) \cup (8148..8149) \cup (8176..8177) \cup (8191..8207)
    \cup (8232..8239) \cup (8287..8303) \cup (8306..8307) \cup (8349..8351)
    \cup (8385..8399) \cup (8433..8447) \cup (8588..8591) \cup (9255..9279)
    \cup (9291..9311) \cup (11124..11125) \cup (11508..11512) \cup
    (11560..11564) \cup (11566..11567) \cup (11624..11630) \cup (11633..11646)
    \cup (11671..11679) \cup (11870..11903) \cup (12020..12031) \cup
    (12246..12271) \cup (12284..12288) \cup (12439..12440) \cup (12544..12548)
    \cup (12772..12783) \cup (42125..42127) \cup (42183..42191) \cup
    (42540..42559) \cup (42744..42751) \cup (42955..42959) \cup (42970..42993)
    \cup (43053..43055) \cup (43066..43071) \cup (43128..43135) \cup
    (43206..43213) \cup (43226..43231) \cup (43348..43358) \cup (43389..43391)
    \cup (43482..43485) \cup (43575..43583) \cup (43598..43599) \cup
    (43610..43611) \cup (43715..43738) \cup (43767..43776) \cup (43783..43784)
    \cup (43791..43792) \cup (43799..43807) \cup (43884..43887) \cup
    (44014..44015) \cup (44026..44031) \cup (55204..55215) \cup (55239..55242)
    \cup (55292..55295) \cup (57344..63743) \cup (64110..64111) \cup
    (64218..64255) \cup (64263..64274) \cup (64280..64284) \cup (64451..64466)
    \cup (64912..64913) \cup (64968..64974) \cup (64976..65007) \cup
    (65050..65055) \cup (65132..65135) \cup (65277..65280) \cup (65471..65473)
    \cup (65480..65481) \cup (65488..65489) \cup (65496..65497) \cup
    (65501..65503) \cup (65519..65531) \cup (65534..65535) \cup {173, 907,
    909, 930, 1328, 1424, 1564, 1757, 2111, 2143, 2274, 2436, 2473, 2481,
    2526, 2564, 2601, 2609, 2612, 2615, 2621, 2653, 2692, 2702, 2706, 2729,
    2737, 2740, 2758, 2762, 2816, 2820, 2857, 2865, 2868, 2910, 2948, 2961,
    2971, 2973, 3017, 3085, 3089, 3113, 3141, 3145, 3159, 3213, 3217, 3241,
    3252, 3269, 3273, 3295, 3312, 3341, 3345, 3397, 3401, 3456, 3460, 3506,
    3516, 3541, 3543, 3715, 3717, 3723, 3748, 3750, 3781, 3783, 3912, 3992,
    4029, 4045, 4294, 4681, 4695, 4697, 4745, 4785, 4799, 4801, 4823, 4881,
    5760, 5997, 6001, 6158, 6431, 6751, 7039, 8024, 8026, 8028, 8030, 8117,
    8133, 8156, 8181, 8335, 11158, 11558, 11687, 11695, 11703, 11711, 11719,
    11727, 11735, 11743, 11930, 12352, 12592, 12687, 12831, 42962, 42964,
    43470, 43519, 43815, 43823, 64311, 64317, 64319, 64322, 64325, 65107,
    65127, 65141, 65511}

Unprintable == CharsAt(UnprintableCodes)

\* '%0*x' % (width, n)
RECURSIVE HexOf(_, _)
HexOf(n, width) ==
    IF width = 0 THEN "" ELSE HexOf(n \div 16, width - 1) \o Ch(HexDigits, (n % 16) + 1)

\* one character of repr(s) between the quotes
ReprChar(c, quote) ==
    LET Escaped(n) == IF n < 256 THEN "\\x" \o HexOf(n, 2) ELSE "\\u" \o HexOf(n, 4)
    IN CASE c = quote \/ c = "\\" -> "\\" \o c
         [] c = "\t" -> "\\t"
         [] c = "\n" -> "\\n"
         [] c = "\r" -> "\\r"
         [] c \in Unprintable ->
                Escaped(CHOOSE n \in UnprintableCodes : HasChr(n) /\ Chr(n) = c)
         [] OTHER -> c

RECURSIVE ReprChars(_, _, _)
ReprChars(s, quote, i) ==
    IF i > Len(s) THEN "" ELSE ReprChar(Ch(s, i), quote) \o ReprChars(s, quote, i + 1)

\* repr(s) of a str: double quotes when s holds a single quote and no double one
PyRepr(s) ==
    LET Quoted(quote) == quote \o ReprChars(s, quote, 1) \o quote
    IN Quoted(IF Contains(s, "'") /\ ~Contains(s, "\"") THEN "\"" ELSE "'")

\* type(v).__name__ of a parsed value
TypeName(v) ==
    CASE v.t = "str" -> "str"
      [] v.t = "arr" -> "list"
      [] v.t = "obj" -> "dict"
      [] v.t = "num" ->
            IF FindAny(v.s, {".", "e", "E"}, 1) = Len(v.s) + 1 THEN "int" ELSE "float"
      [] v.t = "lit" /\ v.s = "null" -> "NoneType"
      [] v.t = "lit" /\ v.s \in {"true", "false"} -> "bool"
      [] OTHER -> "float"

\* float(v): exc names the exception raised and msg is its str(e), val is the
\* float
PyFloat(v) ==
    LET Raises(exc, msg) == [exc |-> exc, msg |-> msg, val |-> None]
        Is(val) == [exc |-> "", msg |-> "", val |-> val]
        OfText(read) ==
            IF read.exc = "" THEN Is(read.val)
            ELSE Raises(read.exc, "could not convert string to float: " \o PyRepr(v.s))
    IN CASE v.t = "num" /\ IntTooLarge(v.s) ->
                Raises("OverflowError", "int too large to convert to float")
         [] v.t = "num" -> Is(v)
         [] v.t = "lit" /\ v.s = "true" -> Is(JNum("1.0"))
         [] v.t = "lit" /\ v.s = "false" -> Is(JNum("0.0"))
         [] v.t = "lit" /\ v.s # "null" -> Is(v)
         [] v.t = "str" -> OfText(FloatOfText(FloatText(v.s)))
         [] OTHER ->
                Raises("TypeError",
                       "float() argument must be a string or a real number, not '"
                       \o TypeName(v) \o "'")

\* the text handed to json.loads: the span from the first open bracket to the last
\* close bracket, else the inside of the first code fence; found is FALSE where
\* the code raises ValueError("No JSON array found in response")
LLMJsonContent(text) ==
    LET Fenced(start, stop) ==
            Strip(Slice(text, start, IF stop = 0 THEN Len(text) ELSE stop))
        Inside(start) == Fenced(start, Find(text, Fence, start))
        Content(json_start, json_end, tagged, plain) ==
            IF json_start # 0 /\ json_end # 0
            THEN [found |-> TRUE, content |-> Slice(text, json_start, json_end + 1)]
            ELSE IF plain = 0 THEN [found |-> FALSE, content |-> ""]
            ELSE [found |-> TRUE,
                  content |-> Inside(IF tagged # 0 THEN tagged + Len(Fence) + 4
                                     ELSE plain + Len(Fence))]
    IN Content(Find(text, "[", 1), RFind(text, "]"),
               Find(text, Fence \o "json", 1), Find(text, Fence, 1))

\* the elements a for loop over a parsed value visits: raises is TRUE where the
\* value is not iterable
Iterate(v) ==
    CASE v.t = "arr" -> [raises |-> FALSE, items |-> v.items]
      [] v.t = "obj" -> [raises |-> FALSE, items |-> [i \in 1..Len(v.keys) |-> JStr(v.keys[i])]]
      [] v.t = "str" -> [raises |-> FALSE, items |-> [i \in 1..Len(v.s) |-> JStr(Ch(v.s, i))]]
      [] OTHER -> [raises |-> TRUE, items |-> <<>>]

\* what leaves the try block of extract_vendors_from_content: the exception
\* raised, exc naming its class and msg being its str(e), or the vendors built
Failure(exc, msg) == [exc |-> exc, msg |-> msg, vendors |-> <<>>]
Built(vendors) == [exc |-> "", msg |-> "", vendors |-> vendors]

\* ExtractedVendor(...) from one parsed record
ExtractedVendor(vendor_dict) ==
    [name |-> Get(vendor_dict, "name", JStr("")),
     business_type |-> Get(vendor_dict, "business_type", None),
     products |-> Get(vendor_dict, "products", None),
     description |-> Get(vendor_dict, "description", None),
     contact_info |-> Get(vendor_dict, "contact_info", None),
     location |-> Get(vendor_dict, "location", None),
     confidence |-> PyFloat(Get(vendor_dict, "confidence", LLMDefaultConfidence)).val]

\* the exception the conversion loop raises on its first failing element from the
\* i-th on, exc being "" if none does: vendor_dict.get of an element that is no
\* dict, or float() of its confidence
RECURSIVE ConversionError(_, _)
ConversionError(items, i) ==
    LET Converted(confidence) ==
            IF confidence.exc # "" THEN Failure(confidence.exc, confidence.msg)
            ELSE ConversionError(items, i + 1)
    IN IF i > Len(items) THEN Built(<<>>)
       ELSE IF ~IsDict(items[i])
       THEN Failure("AttributeError",
                    "'" \o TypeName(items[i]) \o "' object has no attribute 'get'")
       ELSE Converted(PyFloat(Get(items[i], "confidence", LLMDefaultConfidence)))

\* the conversion loop over the parsed elements, failure being the exception it
\* raises
ConvertVendors(items, failure) ==
    IF failure.exc # "" THEN failure
    ELSE Built([i \in 1..Len(items) |-> ExtractedVendor(items[i])])

\* for vendor_dict in vendors_data, parsed being what json.loads gave
IterateVendors(parsed) ==
    IF ~parsed.ok THEN Failure(parsed.exc, parsed.msg)
    ELSE IF Iterate(parsed.val).raises
    THEN Failure("TypeError", "'" \o TypeName(parsed.val) \o "' object is not iterable")
    ELSE ConvertVendors(Iterate(parsed.val).items,
                        ConversionError(Iterate(parsed.val).items, 1))

\* the frames on the stack in extract_vendors_from_content, its own included, on
\* the paths the repository calls it by.  When the script runs: the module's and
\* extract_from_candidates' (llm_vendor_extractor.py:286, 179)
CandidatesFrames == 3

\* from test_single_market: the module's, main's and test_single_market's
\* (integrated_vendor_extraction.py:194, 186, 129)
SingleMarketFrames == 4

\* from extract_vendors_from_markets: the module's, main's,
\* extract_vendors_from_markets' and extract_from_candidates'
\* (integrated_vendor_extraction.py:194, 173, 65; llm_vendor_extractor.py:179)
MarketsFrames == 5

\* the depths extract_from_candidates makes its calls at
CandidateLoopFrames == {CandidatesFrames, MarketsFrames}

LLMFrames == {SingleMarketFrames} \cup CandidateLoopFrames

\* vendors_data = json.loads(json_content), span being what was located
LoadVendors(span, frames) ==
    IF ~span.found THEN Failure("ValueError", "No JSON array found in response")
    ELSE IterateVendors(json_loads(span.content, frames))

\* what self.client.messages.create(...) and response.content[0].text raised:
\* None where they gave the text of an answer, else the str that str(e) of
\* the exception is
NoApiError == None

\* what the API call of the extractions modelled may raise: the
\* APIConnectionError of the client, whose message this is
ApiErrors == {JStr("Connection error.")}
ApiOutcomes == {NoApiError} \cup ApiErrors

\* the try block of extract_vendors_from_content, called with frames frames on
\* the stack
ExtractFromContentBody(api_error, raw_text, frames) ==
    IF api_error # NoApiError THEN Failure("APIError", api_error.s)
    ELSE LoadVendors(LLMJsonContent(Strip(raw_text)), frames)

\* LLMVendorExtractor.extract_vendors_from_content: the VendorExtractionResult,
\* error_message being str(e) of the exception caught
LLM_extract_vendors_from_content(api_error, raw_text, frames) ==
    LET Return(body) ==
            IF body.exc = ""
            THEN [vendors |-> body.vendors, extraction_success |-> TRUE, error_message |-> None]
            ELSE [vendors |-> <<>>, extraction_success |-> FALSE,
                  error_message |-> JStr(body.msg)]
    IN Return(ExtractFromContentBody(api_error, raw_text, frames))


(***************************************************************************)
(* Python floats.  The scores are sums of the literals 0.4, 0.3, 0.2,      *)
(* 0.15, 0.1, ..., none of which is a binary fraction, so a sum depends on *)
(* the order of its terms in the last place (0.1 + 0.2 is not 0.3).  A     *)
(* float in [0, 512) is held exactly, as the multiple of 2^-58 that the    *)
(* IEEE-754 double is, written in base 2^15 with the least significant     *)
(* digit first and no leading zero digit; an addition or a product is      *)
(* computed exactly and rounded to 53 significant bits, ties to even.      *)
(***************************************************************************)

\* the base of the digits, 2^15
Base == 2^15

Digit(a, i) == IF i <= Len(a) THEN a[i] ELSE 0

RECURSIVE AddDigits(_, _, _, _)
AddDigits(a, b, i, carry) ==
    IF i > Len(a) /\ i > Len(b)
    THEN (IF carry = 0 THEN <<>> ELSE <<carry>>)
    ELSE <<(Digit(a, i) + Digit(b, i) + carry) % Base>>
         \o AddDigits(a, b, i + 1, (Digit(a, i) + Digit(b, i) + carry) \div Base)

RECURSIVE MulDigits(_, _, _, _)
MulDigits(n, a, i, carry) ==
    IF i > Len(a)
    THEN (IF carry = 0 THEN <<>> ELSE <<carry>>)
    ELSE <<(n * a[i] + carry) % Base>> \o MulDigits(n, a, i + 1, (n * a[i] + carry) \div Base)

\* the number of bits of a digit, and of a value
DigitBits(d) == CHOOSE k \in 0..15 : d < 2^k /\ (k = 0 \/ d >= 2^(k - 1))
BitLength(a) == IF a = <<>> THEN 0 ELSE 15 * (Len(a) - 1) + DigitBits(a[Len(a)])

\* round to 53 significant bits, ties to even (at most 14 bits are dropped)
RoundDouble(a) ==
    LET Round(unit) ==
            IF \/ a[1] % unit > unit \div 2
               \/ (a[1] % unit = unit \div 2 /\ (a[1] \div unit) % 2 = 1)
            THEN AddDigits([a EXCEPT ![1] = a[1] - (a[1] % unit)], <<unit>>, 1, 0)
            ELSE [a EXCEPT ![1] = a[1] - (a[1] % unit)]
    IN IF BitLength(a) <= 53 THEN a ELSE Round(2^(BitLength(a) - 53))

\* a + b on floats
FloatAdd(a, b) == RoundDouble(AddDigits(a, b, 1, 0))

\* n * a for an int 0 <= n < 2^15 and a float a
FloatMul(n, a) == IF n = 0 THEN <<>> ELSE RoundDouble(MulDigits(n, a, 1, 0))

\* a < b on floats
FloatLess(a, b) ==
    \/ Len(a) < Len(b)
    \/ /\ Len(a) = Len(b)
       /\ \E i \in 1..Len(a) :
            /\ a[i] < b[i]
            /\ \A j \in (i + 1)..Len(a) : a[j] = b[j]

FloatLeq(a, b) == a = b \/ FloatLess(a, b)

\* min(a, b)
FloatMin(a, b) == IF FloatLess(b, a) THEN b ELSE a

\* the float literals of the scorers
F_0_0 == <<>>
F_0_02 == <<5243, 3932, 27525, 163>>
F_0_1 == <<26216, 19660, 6553, 819>>
F_0_15 == <<6552, 13107, 26214, 1228>>
F_0_2 == <<19664, 6553, 13107, 1638>>
F_0_25 == <<0, 0, 0, 2048>>
F_0_3 == <<13104, 26214, 19660, 2457>>
F_0_4 == <<6560, 13107, 26214, 3276>>
F_0_5 == <<0, 0, 0, 4096>>
F_1_0 == <<0, 0, 0, 8192>>

(***************************************************************************)
(* urllib.parse (Python 3.11.6): urlsplit, urlparse, urlunparse, urljoin,  *)
(* and the check of a bracketed host by ipaddress.  The check of a netloc  *)
(* under NFKC normalisation is left out: no character of Alphabet          *)
(* normalises to a text with a slash, question mark, hash, at or colon.    *)
(***************************************************************************)

uses_relative ==
    {"", "ftp", "http", "gopher", "nntp", "imap", "wais", "file", "https", "shttp", "mms",
     "prospero", "rtsp", "rtsps", "rtspu", "sftp", "svn", "svn+ssh", "ws", "wss"}

uses_netloc ==
    {"", "ftp", "http", "gopher", "nntp", "telnet", "imap", "wais", "file", "mms", "https",
     "shttp", "snews", "prospero", "rtsp", "rtsps", "rtspu", "rsync", "svn", "svn+ssh",
     "sftp", "nfs", "git", "git+ssh", "ws", "wss"}

uses_params ==
    {"", "ftp", "hdl", "prospero", "http", "imap", "https", "shttp", "rtsp", "rtsps",
     "rtspu", "sip", "sips", "mms", "sftp", "tel"}

\* scheme_chars
SchemeChars ==
    {UpperChars[i] : i \in 1..26} \cup {LowerChars[i] : i \in 1..26} \cup DigitChars
    \cup {"+", "-", "."}

\* _WHATWG_C0_CONTROL_OR_SPACE and _UNSAFE_URL_BYTES_TO_REMOVE
C0ControlOrSpace == CharsAt(0..32)
UnsafeUrlChars == {"\t", "\r", "\n"}

\* s.lstrip(chars)
LStripChars(s, chars) ==
    Slice(s, CHOOSE q \in 1..(Len(s) + 1) :
                /\ Ch(s, q) \notin chars
                /\ \A r \in 1..(q - 1) : Ch(s, r) \in chars,
          Len(s) + 1)

\* s with every character of chars removed
RECURSIVE RemoveChars(_, _, _)
RemoveChars(s, chars, from) ==
    IF FindAny(s, chars, from) > Len(s) THEN Slice(s, from, Len(s) + 1)
    ELSE Slice(s, from, FindAny(s, chars, from))
         \o RemoveChars(s, chars, FindAny(s, chars, from) + 1)

\* IPv4Address._parse_octet without its value: ASCII digits, at most three, no
\* leading zero, at most 255
IsOctet(text) ==
    /\ Len(text) \in 1..3
    /\ \A i \in 1..Len(text) : IsDigit(Ch(text, i))
    /\ text = "0" \/ Ch(text, 1) # "0"
    /\ Len(text) = 3 =>
          \/ Ch(text, 1) = "1"
          \/ Ch(text, 1) = "2" /\ Ch(text, 2) \in {"0", "1", "2", "3", "4"}
          \/ Ch(text, 1) = "2" /\ Ch(text, 2) = "5" /\ Ch(text, 3) \in {"0", "1", "2", "3", "4", "5"}

\* IPv4Address(text) does not raise, for the octets of text
IsIPv4(octets) == Len(octets) = 4 /\ \A i \in 1..4 : IsOctet(octets[i])

\* IPv6Address._parse_hextet does not raise: one to four hexadecimal digits
IsHextet(text) == Len(text) \in 1..4 /\ \A i \in 1..Len(text) : IsHex(Ch(text, i))

\* the rest of _ip_int_from_string on the parts between the colons, an IPv4
\* suffix replaced by its two hextets: at most nine parts, at most one empty
\* inner part (the "::"), an empty first or last part only next to it, eight
\* hextets without it and fewer with it
IsHextets(parts) ==
    LET n == Len(parts)
        inner == {i \in 2..(n - 1) : parts[i] = ""}
        WithSkip(k) ==
            /\ parts[1] = "" => k = 2
            /\ parts[n] = "" => k = n - 1
            /\ (k - 1 - (IF parts[1] = "" THEN 1 ELSE 0))
               + (n - k - (IF parts[n] = "" THEN 1 ELSE 0)) <= 7
    IN /\ n <= 9
       /\ \A i \in 1..n : parts[i] = "" \/ IsHextet(parts[i])
       /\ Cardinality(inner) <= 1
       /\ inner = {} => n = 8 /\ \A i \in 1..n : parts[i] # ""
       /\ inner # {} => WithSkip(CHOOSE i \in inner : TRUE)

\* IPv6Address._ip_int_from_string(addr) does not raise, for the parts of addr
\* between its colons
IsIPv6Parts(parts) ==
    /\ Len(parts) >= 3
    /\ Contains(parts[Len(parts)], ".") => IsIPv4(SplitOn(parts[Len(parts)], ".", 1))
    /\ IsHextets(IF Find(parts[Len(parts)], ".", 1) > 0
                 THEN SubSeq(parts, 1, Len(parts) - 1) \o <<"0", "0">>
                 ELSE parts)

\* IPv6Address(text) does not raise: an address, and after a percent sign a
\* scope id that is not empty and has no percent sign
IsIPv6(text) ==
    LET Scoped(percent) ==
            /\ percent = 0 \/ (percent < Len(text) /\ Find(text, "%", percent + 1) = 0)
            /\ percent # 1 /\ text # ""
            /\ IsIPv6Parts(SplitOn(IF percent = 0 THEN text ELSE Slice(text, 1, percent),
                                   ":", 1))
    IN Scoped(Find(text, "%", 1))

\* re.match(r"\Av[a-fA-F0-9]+\..+\Z", hostname): the hexadecimal digits end at
\* the first period, and something follows it
IsIPvFuture(hostname) ==
    LET Dotted(dot) ==
            /\ dot > 2
            /\ \A i \in 2..(dot - 1) : IsHex(Ch(hostname, i))
            /\ dot < Len(hostname)
    IN Ch(hostname, 1) = "v" /\ Dotted(Find(hostname, ".", 1))

\* str(e) of the ValueError _check_bracketed_host raises, "" where it returns
BracketedHostError(hostname) ==
    IF StartsAt(hostname, "v", 1)
    THEN (IF IsIPvFuture(hostname) THEN "" ELSE "IPvFuture address is invalid")
    ELSE IF IsIPv4(SplitOn(hostname, ".", 1))
    THEN "An IPv4 address cannot be in brackets"
    ELSE IF IsIPv6(hostname) THEN ""
    ELSE PyRepr(hostname) \o " does not appear to be an IPv4 or IPv6 address"

\* str(e) of the ValueError the checks of urlsplit on a netloc raise, "" where
\* they pass: brackets come in pairs, and what is between the first pair is an
\* IPv6 or IPvFuture address
NetlocError(netloc) ==
    LET Between(open, close) == Slice(netloc, open + 1, IF close = 0 THEN Len(netloc) + 1 ELSE close)
    IN IF Contains(netloc, "[") # Contains(netloc, "]") THEN "Invalid IPv6 URL"
       ELSE IF ~Contains(netloc, "[") THEN ""
       ELSE BracketedHostError(Between(Find(netloc, "[", 1),
                                       Find(netloc, "]", Find(netloc, "[", 1) + 1)))

\* what urlsplit gives where it raises ValueError(msg)
UrlError(msg) ==
    [exc |-> "ValueError", msg |-> msg, scheme |-> "", netloc |-> "", path |-> "",
     params |-> "", query |-> "", fragment |-> ""]

\* the SplitResult of urlsplit once the netloc passed its checks, the
\* ValueError where it did not
SplitChecked(msg, sch, netloc, path, query, fragment) ==
    IF msg = ""
    THEN [exc |-> "", msg |-> "", scheme |-> sch, netloc |-> netloc, path |-> path,
          params |-> "", query |-> query, fragment |-> fragment]
    ELSE UrlError(msg)

\* if '?' in url: url, query = url.split('?', 1), mark being the index of the
\* question mark, then the checks of the netloc
SplitQuery(sch, netloc, rest, fragment, mark) ==
    SplitChecked(NetlocError(netloc), sch, netloc,
                 IF mark = 0 THEN rest ELSE Slice(rest, 1, mark),
                 IF mark = 0 THEN "" ELSE Slice(rest, mark + 1, Len(rest) + 1),
                 fragment)

\* the query of what is left once the fragment is split off
SplitUnfragmented(sch, netloc, url, fragment) ==
    SplitQuery(sch, netloc, url, fragment, Find(url, "?", 1))

\* if '#' in url: url, fragment = url.split('#', 1), hash being the index of the
\* hash sign
SplitFragment(sch, netloc, rest, hash) ==
    SplitUnfragmented(sch, netloc,
                      IF hash = 0 THEN rest ELSE Slice(rest, 1, hash),
                      IF hash = 0 THEN "" ELSE Slice(rest, hash + 1, Len(rest) + 1))

\* the fragment of what is left once the netloc is split off
SplitLocated(sch, netloc, url) == SplitFragment(sch, netloc, url, Find(url, "#", 1))

\* if url[:2] == '//': netloc, url = _splitnetloc(url, 2), delim being the index
\* of the first slash, question mark or hash sign after the two slashes
SplitNetloc(sch, rest, slashes, delim) ==
    SplitLocated(sch,
                 IF slashes THEN Slice(rest, 3, delim) ELSE "",
                 IF slashes THEN Slice(rest, delim, Len(rest) + 1) ELSE rest)

\* the netloc of what is left once the scheme is split off
SplitSchemed(sch, rest) ==
    SplitNetloc(sch, rest, StartsAt(rest, "//", 1), FindAny(rest, {"/", "?", "#"}, 3))

\* the scheme of urlsplit: what is before the first colon when it is valid,
\* lowered; else the default scheme, and the colon stays in the url
SplitScheme(text, scheme, colon, valid) ==
    SplitSchemed(IF valid THEN Lower(Slice(text, 1, colon)) ELSE scheme,
                 IF valid THEN Slice(text, colon + 1, Len(text) + 1) ELSE text)

\* a scheme is valid when it starts with an ASCII letter and holds scheme
\* characters only
SplitColon(text, scheme, colon) ==
    SplitScheme(text, scheme, colon,
                /\ colon > 1 /\ IsAlpha(Ch(text, 1))
                /\ \A i \in 1..(colon - 1) : Ch(text, i) \in SchemeChars)

\* urlsplit of a text without leading C0 controls and spaces and without tabs
\* and newlines
SplitCleaned(text, scheme) == SplitColon(text, scheme, Find(text, ":", 1))

\* urlsplit(url, scheme): exc names the exception raised and msg is its str()
urlsplit(url, scheme) ==
    SplitCleaned(RemoveChars(LStripChars(url, C0ControlOrSpace), UnsafeUrlChars, 1), scheme)

\* _splitparams(url) as the index of the semicolon that starts the parameters,
\* 0 when there is none: the first one after the last slash
ParamsAt(path) == Find(path, ";", IF RFind(path, "/") = 0 THEN 1 ELSE RFind(path, "/"))

\* urlparse(url, scheme)
UrlParseWith(url, scheme) ==
    LET Params(split, at) ==
            IF split.exc = "" /\ split.scheme \in uses_params /\ at > 0
            THEN [split EXCEPT !.path = Slice(split.path, 1, at),
                               !.params = Slice(split.path, at + 1, Len(split.path) + 1)]
            ELSE split
        Split(split) == Params(split, ParamsAt(split.path))
    IN Split(urlsplit(url, scheme))

\* urlparse(url)
urlparse(url) == UrlParseWith(url, "")

\* urlunsplit after urlunparse has put the parameters back on the path
urlunsplit(scheme, netloc, path, query, fragment) ==
    LET Rest(url) ==
            (IF scheme # "" THEN scheme \o ":" ELSE "") \o url
            \o (IF query # "" THEN "?" \o query ELSE "")
            \o (IF fragment # "" THEN "#" \o fragment ELSE "")
    IN Rest(IF netloc # "" \/ (scheme # "" /\ scheme \in uses_netloc /\ ~StartsAt(path, "//", 1))
            THEN "//" \o netloc \o (IF path # "" /\ ~StartsAt(path, "/", 1) THEN "/" ELSE "") \o path
            ELSE path)

\* urlunparse((scheme, netloc, path, params, query, fragment))
urlunparse(scheme, netloc, path, params, query, fragment) ==
    urlunsplit(scheme, netloc, IF params # "" THEN path \o ";" \o params ELSE path,
               query, fragment)

\* '/'.join(parts)
RECURSIVE JoinSlash(_, _)
JoinSlash(parts, i) ==
    IF i > Len(parts) THEN ""
    ELSE IF i = Len(parts) THEN parts[i]
    ELSE parts[i] \o "/" \o JoinSlash(parts, i + 1)

\* the loop of urljoin over the segments: ".." pops the resolved path (an empty
\* one stays empty), "." is skipped, any other segment is appended
RECURSIVE ResolveSegments(_, _, _)
ResolveSegments(segments, i, resolved_path) ==
    IF i > Len(segments) THEN resolved_path
    ELSE ResolveSegments(segments, i + 1,
            CASE segments[i] = ".." ->
                    SubSeq(resolved_path, 1, Len(resolved_path) - 1)
              [] segments[i] = "." -> resolved_path
              [] OTHER -> Append(resolved_path, segments[i]))

NonEmpty(seg) == seg # ""

\* segments[1:-1] = filter(None, segments[1:-1])
FilterInner(segments) ==
    IF Len(segments) <= 2 THEN segments
    ELSE <<segments[1]>>
         \o SelectSeq(SubSeq(segments, 2, Len(segments) - 1), NonEmpty)
         \o <<segments[Len(segments)]>>

\* the segments urljoin resolves: those of the path when it is rooted, else
\* those of the base path without its last one, then those of the path
JoinSegments(bpath, path) ==
    LET Based(base_parts) ==
            FilterInner((IF base_parts[Len(base_parts)] # ""
                         THEN SubSeq(base_parts, 1, Len(base_parts) - 1)
                         ELSE base_parts) \o SplitOn(path, "/", 1))
    IN IF StartsAt(path, "/", 1) THEN SplitOn(path, "/", 1)
       ELSE Based(SplitOn(bpath, "/", 1))

\* the path urljoin resolves from the segments
ResolvedPath(segments) ==
    LET Path(text) == IF text = "" THEN "/" ELSE text
    IN Path(JoinSlash(ResolveSegments(segments, 1, <<>>)
                      \o (IF segments[Len(segments)] \in {".", ".."} THEN <<"">> ELSE <<>>), 1))

\* what urljoin gives where it returns text, and where it raises ValueError(msg)
JoinResult(text) == [exc |-> "", msg |-> "", url |-> text]
JoinError(msg) == [exc |-> "ValueError", msg |-> msg, url |-> ""]

\* urljoin once both are parsed, b being urlparse(base) and u being
\* urlparse(url, bscheme)
JoinParsed(b, u, url) ==
    CASE u.exc # "" -> JoinError(u.msg)
      [] u.scheme # b.scheme \/ u.scheme \notin uses_relative -> JoinResult(url)
      [] u.scheme \in uses_netloc /\ u.netloc # "" ->
            JoinResult(urlunparse(u.scheme, u.netloc, u.path, u.params, u.query, u.fragment))
      [] OTHER ->
            JoinResult(urlunparse(u.scheme,
                              IF u.scheme \in uses_netloc THEN b.netloc ELSE u.netloc,
                              IF u.path = "" /\ u.params = "" THEN b.path
                              ELSE ResolvedPath(JoinSegments(b.path, u.path)),
                              IF u.path = "" /\ u.params = "" THEN b.params ELSE u.params,
                              IF u.path = "" /\ u.params = "" /\ u.query = "" THEN b.query
                              ELSE u.query,
                              u.fragment))

\* urljoin(base, url) for b = urlparse(base)
JoinOnto(b, base, url) ==
    IF base = "" THEN JoinResult(url)
    ELSE IF url = "" THEN JoinResult(base)
    ELSE IF b.exc # "" THEN JoinError(b.msg)
    ELSE JoinParsed(b, UrlParseWith(url, b.scheme), url)

\* urljoin(base, url): exc names the exception raised and msg is its str(), url
\* is the result
UrlJoin(base, url) == JoinOnto(urlparse(base), base, url)

\* urljoin(base, url) where it returns
urljoin(base, href) == UrlJoin(base, href).url

(***************************************************************************)
(* vendor_page_finder.py: the link scorer.                                 *)
(***************************************************************************)

\* self.vendor_link_keywords of VendorPageFinder
high_priority ==
    <<"vendors", "our vendors", "vendor directory", "farmers", "our farmers", "growers">>
medium_priority ==
    <<"participants", "market vendors", "who we are", "meet the vendors", "producers">>
low_priority ==
    <<"vendor list", "vendor info", "about vendors", "artisans", "businesses">>

\* the three for loops of score_link_for_vendors: the keywords of each tier with
\* the points for a keyword in the link text and in the URL path (the low tier has
\* no URL test: F_0_0 stands for the missing branch)
LinkRubric ==
    <<[tier |-> "High", keywords |-> high_priority,
       text_points |-> F_0_4, url_points |-> F_0_3],
      [tier |-> "Medium", keywords |-> medium_priority,
       text_points |-> F_0_2, url_points |-> F_0_15],
      [tier |-> "Low", keywords |-> low_priority,
       text_points |-> F_0_1, url_points |-> F_0_0]>>

\* the rubric as it would be if a high priority keyword in the link text earned
\* the points of a low priority one
FlatLinkRubric == [LinkRubric EXCEPT ![1].text_points = F_0_1]

\* one if of the loop body: score += points and the reason appended when the
\* keyword is in the text searched
KeywordHit(tier, keyword, where, searched, points, acc) ==
    IF points # F_0_0 /\ Contains(searched, keyword)
    THEN [score |-> FloatAdd(acc.score, points),
          reasons |-> Append(acc.reasons,
                             tier \o " priority keyword '" \o keyword \o "' in " \o where)]
    ELSE acc

\* the for loops over the tiers of a rubric, from the i-th keyword of the t-th
\* tier on: acc is [score, reasons] so far
RECURSIVE ScoreTiers(_, _, _, _, _, _)
ScoreTiers(rubric, link_text_lower, url_path, t, i, acc) ==
    IF t > Len(rubric) THEN acc
    ELSE IF i > Len(rubric[t].keywords)
    THEN ScoreTiers(rubric, link_text_lower, url_path, t + 1, 1, acc)
    ELSE ScoreTiers(rubric, link_text_lower, url_path, t, i + 1,
            KeywordHit(rubric[t].tier, rubric[t].keywords[i], "URL", url_path,
                       rubric[t].url_points,
                KeywordHit(rubric[t].tier, rubric[t].keywords[i], "link text",
                           link_text_lower, rubric[t].text_points, acc)))

\* score_link_for_vendors under a rubric: the tuple (score, reasons), exc naming
\* the exception urlparse raises on the URL
LinkScore(rubric, link_text, link_url) ==
    LET Return(sum) ==
            [exc |-> "", score |-> FloatMin(sum.score, F_1_0), reasons |-> sum.reasons]
        Parsed(parsed) ==
            IF parsed.exc # "" THEN [exc |-> parsed.exc, score |-> F_0_0, reasons |-> <<>>]
            ELSE Return(ScoreTiers(rubric, Strip(Lower(link_text)), Lower(parsed.path),
                                   1, 1, [score |-> F_0_0, reasons |-> <<>>]))
    IN Parsed(urlparse(link_url))

score_link_for_vendors_flat(link_text, link_url) ==
    LinkScore(FlatLinkRubric, link_text, link_url)

\* VendorPageFinder.score_link_for_vendors
score_link_for_vendors(link_text, link_url) == LinkScore(LinkRubric, link_text, link_url)

(***************************************************************************)
(* vendor_page_finder.py: the content scorer.                              *)
(***************************************************************************)

\* self.content_indicators of VendorPageFinder
vendor_names ==
    <<"farm", "bakery", "gardens", "orchard", "kitchen", "creamery", "ranch", "dairy">>
business_indicators ==
    <<"llc", "inc", "co.", "company", "family owned", "organic", "certified">>
product_indicators ==
    <<"specializes in", "produces", "offers", "sells", "grows", "bakes", "makes">>
contact_indicators == <<"phone:", "email:", "website:", "contact:", "@", "www.">>

\* the sum of content_lower.count(indicator) over the indicators of one list
RECURSIVE IndicatorCount(_, _, _)
IndicatorCount(content_lower, indicators, i) ==
    IF i > Len(indicators) THEN 0
    ELSE Count(content_lower, indicators[i]) + IndicatorCount(content_lower, indicators, i + 1)

\* the word characters of re, and the word boundary before index i
IsWord(c) == c \in WordChars
WordBoundary(s, i) == IsWord(Ch(s, i - 1)) # IsWord(Ch(s, i))

\* the index after the run of characters of a class that starts at index i
RunEnd(s, i, class) ==
    CHOOSE q \in i..(Len(s) + 1) :
        /\ q = Len(s) + 1 \/ Ch(s, q) \notin class
        /\ \A r \in i..(q - 1) : Ch(s, r) \in class

Letters == {UpperChars[i] : i \in 1..26} \cup {LowerChars[i] : i \in 1..26}
Spaces == Whitespace

\* the least index >= from at which a match starts, 0 if none (ends[i] is the
\* index after the match that starts at i, 0 where none starts)
FirstMatch(ends, from) ==
    IF \E i \in from..Len(ends) : ends[i] # 0
    THEN CHOOSE i \in from..Len(ends) :
            ends[i] # 0 /\ \A j \in from..(i - 1) : ends[j] = 0
    ELSE 0

\* len(re.findall(pattern, content)): matches are taken leftmost first and do not
\* overlap
RECURSIVE CountMatches(_, _)
CountMatches(ends, from) ==
    LET Matched(first) == IF first = 0 THEN 0 ELSE 1 + CountMatches(ends, ends[first])
    IN Matched(FirstMatch(ends, from))

\* the class of the name groups of the list and business patterns
NameClass == Letters \cup Spaces \cup {"&", "'", "."}

\* the characters of s other than the period
NotPeriod(s) == {Ch(s, k) : k \in 1..Len(s)} \ {"."}

\* list_pattern at index i: a capital, 3 to 30 characters of letters, whitespace,
\* ampersand, apostrophe and period, optional whitespace, a dash or colon, optional
\* whitespace, 15 or more characters other than a period.  The index after the
\* match, 0 if there is none.  (The en and em dash of the pattern are not
\* characters of the texts modelled.)
ListMatchEnd(s, i) ==
    LET Rest(p, rest) == IF rest - (p + 1) >= 15 THEN rest ELSE 0
        Name(p) ==
            IF /\ IsUpper(Ch(s, i))
               /\ p - (i + 1) >= 3
               /\ p - (i + 1) > 30 => RunEnd(s, i + 31, Spaces) = p
               /\ Ch(s, p) \in {"-", ":"}
            THEN Rest(p, RunEnd(s, p + 1, NotPeriod(s)))
            ELSE 0
    IN Name(RunEnd(s, i + 1, NameClass))

\* phone_pattern at index i: word boundary, 3 digits, an optional dash or period,
\* 3 digits, an optional dash or period, 4 digits, word boundary
PhoneMatchEnd(s, i) ==
    LET Digits(a, n) == \A k \in a..(a + n - 1) : Ch(s, k) \in DecimalDigits
        Sep(a) == IF Ch(s, a) \in {"-", "."} THEN a + 1 ELSE a
        Groups(b, c) ==
            IF WordBoundary(s, i) /\ Digits(i, 3) /\ Digits(b, 3) /\ Digits(c, 4)
               /\ WordBoundary(s, c + 4)
            THEN c + 4 ELSE 0
    IN Groups(Sep(i + 3), Sep(Sep(i + 3) + 3))

\* email_pattern at index i: word boundary, one or more local characters, an at
\* sign, one or more domain characters, a period, two or more letters or vertical
\* bars, word boundary; the greedy quantifiers give back from the longest
EmailMatchEnd(s, i) ==
    LET local_class == Letters \cup DigitChars \cup {".", "_", "%", "+", "-"}
        domain_class == Letters \cup DigitChars \cup {".", "-"}
        tld_class == Letters \cup {"|"}
        TldEnds(dot) == {z \in (dot + 3)..RunEnd(s, dot + 1, tld_class) : WordBoundary(s, z)}
        Greatest(set) == CHOOSE x \in set : \A y \in set : x >= y
        Dots(dots) == IF dots = {} THEN 0 ELSE Greatest(TldEnds(Greatest(dots)))
        Domain(at, domain_end) ==
            IF WordBoundary(s, i) /\ at > i /\ Ch(s, at) = "@"
            THEN Dots({x \in (at + 2)..(domain_end - 1) : Ch(s, x) = "." /\ TldEnds(x) # {}})
            ELSE 0
        Local(at) == Domain(at, RunEnd(s, at + 1, domain_class))
    IN Local(RunEnd(s, i, local_class))

\* score += points; reasons.append(label with its count)
Scored(acc, points, label, count) ==
    [score |-> FloatAdd(acc.score, points), reasons |-> Append(acc.reasons, <<label, count>>)]

\* if count >= threshold: score += points, with its reason
ScoreIf(acc, count, threshold, points, label) ==
    IF count >= threshold THEN Scored(acc, points, label, count) ELSE acc

\* if count >= many: ... elif count >= some: ...
ScoreIfElif(acc, count, many, many_points, many_label, some, some_points, some_label) ==
    IF count >= many THEN Scored(acc, many_points, many_label, count)
    ELSE ScoreIf(acc, count, some, some_points, some_label)

\* the score and reasons after the four indicator counts
IndicatorScore(content_lower) ==
    ScoreIfElif(
      ScoreIf(
        ScoreIf(
          ScoreIfElif([score |-> F_0_0, reasons |-> <<>>],
                      IndicatorCount(content_lower, vendor_names, 1),
                      5, F_0_3, "Many business type words found",
                      2, F_0_15, "Some business type words found"),
          IndicatorCount(content_lower, business_indicators, 1),
          3, F_0_2, "Multiple business indicators"),
        IndicatorCount(content_lower, product_indicators, 1),
        3, F_0_2, "Multiple product indicators"),
      IndicatorCount(content_lower, contact_indicators, 1),
      5, F_0_25, "Many contact indicators",
      2, F_0_1, "Some contact indicators")

\* the sum before the final min; a reason is <<label, count>>, the two parts of the
\* formatted message
ContentScoreSum(content) ==
    ScoreIf(
      ScoreIf(
        ScoreIf(IndicatorScore(Lower(content)),
                CountMatches([i \in 1..Len(content) |-> ListMatchEnd(content, i)], 1),
                3, F_0_3, "Structured list pattern detected"),
        CountMatches([i \in 1..Len(content) |-> PhoneMatchEnd(content, i)], 1),
        3, F_0_2, "Multiple phone numbers found"),
      CountMatches([i \in 1..Len(content) |-> EmailMatchEnd(content, i)], 1),
      2, F_0_15, "Multiple email addresses found")

\* analyze_content_for_vendors as it would be without the final min(score, 1.0)
analyze_content_unclamped(content) == ContentScoreSum(content)

\* VendorPageFinder.analyze_content_for_vendors: the tuple (score, reasons)
analyze_content_for_vendors(content) ==
    LET Return(sum) == [score |-> FloatMin(sum.score, F_1_0), reasons |-> sum.reasons]
    IN Return(ContentScoreSum(content))

(***************************************************************************)
(* vendor_crawler.py: link scoring, vendor extraction and page confidence. *)
(***************************************************************************)

\* self.vendor_link_keywords of VendorPageCrawler
crawler_link_keywords ==
    <<"vendor", "vendors", "farmer", "farmers", "participant", "participants",
      "market-vendors", "our-vendors", "vendor-list", "vendor-directory",
      "who-we-are", "about-vendors", "meet", "producers", "growers",
      "artisans", "businesses", "stalls", "booths">>

\* self.vendor_content_indicators of VendorPageCrawler
vendor_content_indicators ==
    <<"specializes in", "produces", "offers", "family farm", "organic",
      "fresh", "locally grown", "artisan", "handmade", "bakery",
      "contact", "website", "phone", "email", "@", "www.">>

\* the first for loop of is_vendor_related_link, from the i-th keyword on
RECURSIVE TextKeywordScore(_, _, _)
TextKeywordScore(link_text_lower, i, score) ==
    IF i > Len(crawler_link_keywords) THEN score
    ELSE TextKeywordScore(link_text_lower, i + 1,
            IF ~Contains(link_text_lower, crawler_link_keywords[i]) THEN score
            ELSE FloatAdd(score,
                    IF crawler_link_keywords[i] \in {"vendor", "vendors", "farmer", "farmers"}
                    THEN F_0_4 ELSE F_0_2))

\* the second for loop of is_vendor_related_link
RECURSIVE UrlKeywordScore(_, _, _)
UrlKeywordScore(url_path, i, score) ==
    IF i > Len(crawler_link_keywords) THEN score
    ELSE UrlKeywordScore(url_path, i + 1,
            IF Contains(url_path, crawler_link_keywords[i]) THEN FloatAdd(score, F_0_3)
            ELSE score)

\* the bonus for exact matches
ExactMatchBonus(link_text_lower, score) ==
    IF link_text_lower \in {"vendors", "our vendors", "farmers", "vendor directory"}
    THEN FloatAdd(score, F_0_3) ELSE score

\* VendorPageCrawler.is_vendor_related_link: the score, exc naming the exception
\* urlparse raises on the URL
is_vendor_related_link(link_text, link_url) ==
    LET Parsed(parsed) ==
            IF parsed.exc # "" THEN [exc |-> parsed.exc, score |-> F_0_0]
            ELSE [exc |-> "",
                  score |-> FloatMin(ExactMatchBonus(Strip(Lower(link_text)),
                                         UrlKeywordScore(Lower(parsed.path), 1,
                                             TextKeywordScore(Strip(Lower(link_text)), 1,
                                                              F_0_0))),
                                     F_1_0)]
    IN Parsed(urlparse(link_url))

\* the alternatives of the second group of business_patterns[0] and [1], in the
\* order the regex tries them (an optional last character first with, then
\* without it)
farm_types ==
    <<"Farm", "Bakery", "Gardens", "Garden", "Orchards", "Orchard", "Market",
      "Kitchen", "Creamery", "Dairy", "Ranch">>
company_types == <<"LLC", "Inc.", "Inc", "Co.", "Co">>

\* the first alternative of types, from the k-th on, that matches at t and is
\* followed by a word boundary, 0 if none
RECURSIVE TypeAt(_, _, _, _)
TypeAt(s, t, types, k) ==
    IF k > Len(types) THEN 0
    ELSE IF StartsAt(s, types[k], t) /\ WordBoundary(s, t + Len(types[k])) THEN k
    ELSE TypeAt(s, t, types, k + 1)

NoMatch == [end |-> 0, g1 |-> "", g2 |-> ""]

\* a business pattern at index i with a name group of n characters after the
\* capital, the greatest n tried first: whitespace and a type word must follow
RECURSIVE BusinessName(_, _, _, _)
BusinessName(s, i, types, n) ==
    LET Type(t, k) ==
            IF k = 0 THEN BusinessName(s, i, types, n - 1)
            ELSE [end |-> t + Len(types[k]), g1 |-> Slice(s, i, i + 1 + n), g2 |-> types[k]]
        Gap(t) == Type(t, TypeAt(s, t, types, 1))
    IN IF n < 2 THEN NoMatch
       ELSE IF ~IsSpace(Ch(s, i + 1 + n)) THEN BusinessName(s, i, types, n - 1)
       ELSE Gap(RunEnd(s, i + 1 + n, Spaces))

\* a business pattern at index i: word boundary, a capital and 2 to 30 name
\* characters (greedy), whitespace, a type word, word boundary.  The groups and the
\* index after the match; end is 0 if there is none.
BusinessMatch(s, i, types) ==
    LET Longest(run) == BusinessName(s, i, types, IF run > 30 THEN 30 ELSE run)
    IN IF WordBoundary(s, i) /\ IsUpper(Ch(s, i))
       THEN Longest(RunEnd(s, i + 1, NameClass) - (i + 1))
       ELSE NoMatch

\* the description group of a list pattern after the separator at p: optional
\* whitespace, then 10 to 100 characters other than a period, the whitespace
\* taken as long as 10 characters remain.  g1 is the name group.
Description(s, p, g1) ==
    LET Greatest(set) == CHOOSE x \in set : \A y \in set : x >= y
        Group(d, stop) ==
            [end |-> IF stop - d > 100 THEN d + 100 ELSE stop, g1 |-> g1,
             g2 |-> Slice(s, d, IF stop - d > 100 THEN d + 100 ELSE stop)]
        Starts(starts, stop) == IF starts = {} THEN NoMatch ELSE Group(Greatest(starts), stop)
        Stop(stop) ==
            Starts({d \in (p + 1)..RunEnd(s, p + 1, Spaces) : stop - d >= 10}, stop)
    IN Stop(RunEnd(s, p + 1, NotPeriod(s)))

\* list_patterns[0] at index i: a capital and 3 to 25 name characters, optional
\* whitespace, a dash, optional whitespace, 10 to 100 characters other than a
\* period
DashListMatch(s, i) ==
    LET Name(p, n) ==
            IF /\ IsUpper(Ch(s, i)) /\ p - (i + 1) >= 3 /\ Ch(s, p) = "-"
               /\ RunEnd(s, i + 1 + n, Spaces) = p
            THEN Description(s, p, Slice(s, i, i + 1 + n))
            ELSE NoMatch
        Run(p) == Name(p, IF p - (i + 1) > 25 THEN 25 ELSE p - (i + 1))
    IN Run(RunEnd(s, i + 1, NameClass))

\* list_patterns[1] at index i: a capital and 3 to 25 name characters, a colon,
\* optional whitespace, 10 to 100 characters other than a period
ColonListMatch(s, i) ==
    LET Run(p) ==
            IF IsUpper(Ch(s, i)) /\ p - (i + 1) >= 3 /\ p - (i + 1) <= 25 /\ Ch(s, p) = ":"
            THEN Description(s, p, Slice(s, i, p))
            ELSE NoMatch
    IN Run(RunEnd(s, i + 1, NameClass))

\* the least index >= from at which a match starts, 0 if none
FirstMatchAt(matches, from) ==
    IF \E i \in from..Len(matches) : matches[i].end # 0
    THEN CHOOSE i \in from..Len(matches) :
            matches[i].end # 0 /\ \A j \in from..(i - 1) : matches[j].end = 0
    ELSE 0

\* re.findall from the match that starts at each index: the matches, leftmost
\* first, not overlapping
RECURSIVE FindAllMatches(_, _)
FindAllMatches(matches, from) ==
    LET Matched(first) ==
            IF first = 0 THEN <<>>
            ELSE <<matches[first]>> \o FindAllMatches(matches, matches[first].end)
    IN Matched(FirstMatchAt(matches, from))

\* v['name'] for v in vendors
NamesOf(vendors) == {Get(vendors[k], "name", None).s : k \in 1..Len(vendors)}

\* any(word in text for word in words)
AnyIn(words, text) == \E w \in words : Contains(text, w)

\* the inner loop over the matches of one business pattern, from the k-th match on
RECURSIVE AddBusinessMatches(_, _, _, _)
AddBusinessMatches(matches, k, url, vendors) ==
    LET Added(business_name) ==
            IF Len(business_name) > 5 /\ business_name \notin NamesOf(vendors)
            THEN Append(vendors,
                        JObj(<<"name", "type", "source", "url">>,
                             <<JStr(business_name), JStr(Lower(matches[k].g2)),
                               JStr("pattern_match"), JStr(url)>>))
            ELSE vendors
    IN IF k > Len(matches) THEN vendors
       ELSE AddBusinessMatches(matches, k + 1, url,
                Added(Strip(matches[k].g1) \o " " \o Strip(matches[k].g2)))

\* the type read off a description
VendorTypeOf(description_lower) ==
    IF AnyIn({"farm", "grow", "produce", "vegetable"}, description_lower) THEN "farm"
    ELSE IF AnyIn({"bake", "bread", "pastry"}, description_lower) THEN "bakery"
    ELSE IF AnyIn({"craft", "handmade", "artisan"}, description_lower) THEN "artisan"
    ELSE "unknown"

\* the inner loop over the matches of one list pattern, from the k-th match on
RECURSIVE AddListMatches(_, _, _, _)
AddListMatches(matches, k, url, vendors) ==
    LET Added(name, description) ==
            IF /\ Len(name) > 3
               /\ ~AnyIn({"market", "location", "contact", "about", "info", "news"},
                         Lower(name))
               /\ name \notin NamesOf(vendors)
            THEN Append(vendors,
                        JObj(<<"name", "type", "description", "source", "url">>,
                             <<JStr(name), JStr(VendorTypeOf(Lower(description))),
                               JStr(Slice(description, 1, 201)), JStr("list_match"),
                               JStr(url)>>))
            ELSE vendors
    IN IF k > Len(matches) THEN vendors
       ELSE AddListMatches(matches, k + 1, url,
                           Added(Strip(matches[k].g1), Strip(matches[k].g2)))

\* VendorPageCrawler.extract_vendors_from_content
extract_vendors_from_content(content, url) ==
    LET First20(vendors) == SubSeq(vendors, 1, IF Len(vendors) > 20 THEN 20 ELSE Len(vendors))
    IN First20(
        AddListMatches(
            FindAllMatches([i \in 1..Len(content) |-> ColonListMatch(content, i)], 1), 1, url,
            AddListMatches(
                FindAllMatches([i \in 1..Len(content) |-> DashListMatch(content, i)], 1), 1, url,
                AddBusinessMatches(
                    FindAllMatches([i \in 1..Len(content) |->
                                        BusinessMatch(content, i, company_types)], 1), 1, url,
                    AddBusinessMatches(
                        FindAllMatches([i \in 1..Len(content) |->
                                            BusinessMatch(content, i, farm_types)], 1), 1, url,
                        <<>>)))))

\* VendorPageCrawler.calculate_vendor_page_confidence
calculate_vendor_page_confidence(content, vendors) ==
    LET Bonus(score) == IF Len(vendors) >= 5 THEN FloatAdd(score, F_0_2) ELSE score
    IN FloatMin(Bonus(FloatAdd(FloatMin(FloatMul(Len(vendors), F_0_1), F_0_5),
                               FloatMin(FloatMul(IndicatorCount(Lower(content),
                                                                vendor_content_indicators, 1),
                                                 F_0_02),
                                        F_0_3))),
                F_1_0)

(***************************************************************************)
(* The per-site crawl: page text clean-up, link filter, ordering.          *)
(***************************************************************************)

\* content.splitlines(), up to empty lines (which the clean-up drops): the pieces
\* between line breaks
RECURSIVE SplitLines(_, _)
SplitLines(s, from) ==
    LET at == FindAny(s, LineBreaks, from)
    IN IF at > Len(s) THEN <<Slice(s, from, Len(s) + 1)>>
       ELSE <<Slice(s, from, at)>> \o SplitLines(s, at + 1)

\* ' '.join(chunk for chunk in chunks if chunk), chunks being the stripped phrases
RECURSIVE JoinChunks(_, _, _)
JoinChunks(phrases, i, acc) ==
    IF i > Len(phrases) THEN acc
    ELSE LET chunk == Strip(phrases[i])
         IN JoinChunks(phrases, i + 1,
                       IF chunk = "" THEN acc
                       ELSE IF acc = "" THEN chunk ELSE acc \o " " \o chunk)

\* the phrases of all lines: line.split("  ") of every stripped line
RECURSIVE Phrases(_, _)
Phrases(lines, i) ==
    IF i > Len(lines) THEN <<>>
    ELSE SplitOn(Strip(lines[i]), "  ", 1) \o Phrases(lines, i + 1)

\* the whitespace clean-up of soup.get_text() in both crawl loops
CleanText(content) == JoinChunks(Phrases(SplitLines(content, 1), 1), 1, "")

\* s.endswith(k)
EndsWith(s, k) == Len(s) >= Len(k) /\ StartsAt(s, k, Len(s) - Len(k) + 1)

FileExtensions == {".pdf", ".jpg", ".png", ".gif"}
MaxLinkText == 100

\* a link the filter skips
NoLink == [exc |-> "", keep |-> FALSE, link_text |-> "", full_url |-> ""]

\* the end of the link filter: full is what urljoin gave, parsed is
\* urlparse(full_url) and b is urlparse(base_url); exc names the first exception
\* raised
FilterParsed(link_text, full, parsed, b) ==
    IF full.exc # "" THEN [NoLink EXCEPT !.exc = full.exc]
    ELSE IF parsed.exc # "" THEN [NoLink EXCEPT !.exc = parsed.exc]
    ELSE IF b.exc # "" THEN [NoLink EXCEPT !.exc = b.exc]
    ELSE IF \/ parsed.netloc # b.netloc
            \/ \E ext \in FileExtensions : EndsWith(Lower(full.url), ext)
    THEN NoLink
    ELSE [exc |-> "", keep |-> TRUE, link_text |-> link_text, full_url |-> full.url]

\* the link filter once the text and the href passed: full is what urljoin gave
FilterFull(link_text, full, b) == FilterParsed(link_text, full, urlparse(full.url), b)

\* the link filter for b = urlparse(base_url)
FilterOnto(link, base_url, b) ==
    IF Strip(link.text) = "" \/ Len(Strip(link.text)) > MaxLinkText THEN NoLink
    ELSE IF ~StartsAt(link.href, "/", 1) /\ ~StartsAt(link.href, "http", 1) THEN NoLink
    ELSE FilterFull(Strip(link.text),
                    IF StartsAt(link.href, "/", 1) THEN JoinOnto(b, base_url, link.href)
                    ELSE JoinResult(link.href),
                    b)

\* the link filter of both crawl loops for a link [text, href] of the root page:
\* NoLink for a link that is skipped, else the stripped text and the absolute
\* URL; exc names the exception urljoin or urlparse raises on the link
FilterLink(link, base_url) == FilterOnto(link, base_url, urlparse(base_url))

\* what the link loop gives: the list of links, or the exception raised
VendorLinks(exc, links) == [exc |-> exc, links |-> IF exc # "" THEN <<>> ELSE links]

\* one pass of the link loop: the loop ends where the filter raises on the link,
\* else what the link scored is put before what the later links give
LinkStep(f, entry, later) ==
    IF f.exc # "" THEN VendorLinks(f.exc, <<>>)
    ELSE IF later.exc # "" THEN later
    ELSE VendorLinks("", entry \o later.links)

\* if score > 0.2: vendor_links.append((full_url, link_text, score)), for a link f
\* that passed the filter
ScoredLink(f, score) ==
    IF f.keep /\ FloatLess(F_0_2, score)
    THEN <<[url |-> f.full_url, text |-> f.link_text, score |-> score]>>
    ELSE <<>>

\* the finder's score of a filtered link
FinderLink(f) == ScoredLink(f, score_link_for_vendors(f.link_text, f.full_url).score)

\* the crawler's score of a filtered link
CrawlerLink(f) == ScoredLink(f, is_vendor_related_link(f.link_text, f.full_url).score)

\* one pass of the finder's link loop
FinderStep(f, later) == LinkStep(f, FinderLink(f), later)

\* the finder's loop over the links from the i-th on, b being urlparse(base_url):
\* the links scored above 0.2 in page order, (full_url, link_text, link_score),
\* or the exception raised
RECURSIVE FinderScoredLinks(_, _, _, _)
FinderScoredLinks(links, base_url, b, i) ==
    IF i > Len(links) THEN VendorLinks("", <<>>)
    ELSE FinderStep(FilterOnto(links[i], base_url, b),
                    FinderScoredLinks(links, base_url, b, i + 1))

\* one pass of the crawler's link loop
CrawlerStep(f, later) == LinkStep(f, CrawlerLink(f), later)

\* the same for the crawler
RECURSIVE CrawlerScoredLinks(_, _, _, _)
CrawlerScoredLinks(links, base_url, b, i) ==
    IF i > Len(links) THEN VendorLinks("", <<>>)
    ELSE CrawlerStep(FilterOnto(links[i], base_url, b),
                     CrawlerScoredLinks(links, base_url, b, i + 1))

\* x put at the end of the list, whatever its score
InsertLast(sorted, x) == Append(sorted, x)

\* x put into a list sorted by falling score, after the entries that score as
\* much or more
InsertByScore(sorted, x) ==
    LET before == {k \in 1..Len(sorted) : ~FloatLess(sorted[k].score, x.score)}
        n == Cardinality(before)
    IN SubSeq(sorted, 1, n) \o <<x>> \o SubSeq(sorted, n + 1, Len(sorted))

\* vendor_links.sort(key=lambda x: x[2], reverse=True): a stable sort, links with
\* equal scores keep their page order
RECURSIVE SortByScore(_, _, _)
SortByScore(vendor_links, i, sorted) ==
    IF i > Len(vendor_links) THEN sorted
    ELSE SortByScore(vendor_links, i + 1, InsertByScore(sorted, vendor_links[i]))

\* seq[:n]
Take(seq, n) == SubSeq(seq, 1, IF n < Len(seq) THEN n ELSE Len(seq))

FinderTopLinks == 3
CrawlerTopLinks == 5
FinderQuota == 5
CrawlerQuota == 10

\* vendor_links.sort(...) on what the link loop gave, if all of them were
\* returned
SortedTop_all(found, n) == VendorLinks(found.exc, SortByScore(found.links, 1, <<>>))

\* vendor_links.sort(...) and vendor_links[:n] on what the link loop gave
SortedTop(found, n) == VendorLinks(found.exc, Take(SortByScore(found.links, 1, <<>>), n))

\* the finder's vendor_links[:3] after the sort, exc naming the exception the
\* loop over the links raises
FinderVendorLinks(links, base_url) ==
    SortedTop(FinderScoredLinks(links, base_url, urlparse(base_url), 1), FinderTopLinks)

\* VendorPageCrawler.find_vendor_links: the list returned, exc naming the
\* exception raised
find_vendor_links(links, base_url) ==
    SortedTop(CrawlerScoredLinks(links, base_url, urlparse(base_url), 1), CrawlerTopLinks)

\* the queue after the top links were offered to it: a link is appended unless
\* its URL is in visited_urls
RECURSIVE Enqueue(_, _, _, _, _)
Enqueue(queue, vendor_links, visited, depth, i) ==
    IF i > Len(vendor_links) THEN queue
    ELSE Enqueue(IF vendor_links[i].url \in visited THEN queue
                 ELSE Append(queue, <<vendor_links[i].url, depth + 1>>),
                 vendor_links, visited, depth, i + 1)

(***************************************************************************)
(* claude_vendor_extractor.py: one page, from the fetch to the             *)
(* ExtractionResult.  A page is [status, text, scripts]: how the fetch     *)
(* ends ("ok", "http_error" where raise_for_status raises, "exception"     *)
(* where session.get raises), the text soup.get_text() gives once the      *)
(* script, style, nav, footer and header elements are removed, and the     *)
(* strings of the script elements.                                         *)
(***************************************************************************)

ContentLimit == 8000

\* script_content: " " + script.string for every script with a string
RECURSIVE ScriptContent(_, _)
ScriptContent(scripts, i) ==
    IF i > Len(scripts) THEN ""
    ELSE (IF scripts[i] # "" THEN " " \o scripts[i] ELSE "") \o ScriptContent(scripts, i + 1)

\* what _fetch_page_content returns: none stands for Python None
NoContent == [none |-> TRUE, text |-> ""]

\* the visible text and the script content of a page, cleaned of whitespace and
\* never cut
fetch_page_content_uncut(page) ==
    IF page.status # "ok" THEN NoContent
    ELSE [none |-> FALSE,
          text |-> CleanText(page.text \o " " \o ScriptContent(page.scripts, 1))]

\* ClaudeVendorExtractor._fetch_page_content
fetch_page_content(page) ==
    LET Limited(combined_text) ==
            IF Len(combined_text) > ContentLimit
            THEN SubSeq(combined_text, 1, ContentLimit) \o "..."
            ELSE combined_text
    IN IF page.status # "ok" THEN NoContent
       ELSE [none |-> FALSE,
             text |-> Limited(CleanText(page.text \o " "
                                        \o ScriptContent(page.scripts, 1)))]

\* ExtractionResult(...); processing_time is not modelled
ExtractionResult(market_name, page_url, vendors_, success, error_message) ==
    [market_name |-> market_name, market_url |-> "", vendor_page_url |-> page_url,
     vendors |-> vendors_, extraction_success |-> success,
     error_message |-> error_message]

\* extract_vendors_from_page if its failure record carried no error message
extract_vendors_from_page_unflagged(market_name, page_url, page_content, vendors_) ==
    IF page_content.none \/ page_content.text = ""
    THEN ExtractionResult(market_name, page_url, <<>>, FALSE, None)
    ELSE ExtractionResult(market_name, page_url, vendors_, TRUE, None)

\* ClaudeVendorExtractor.extract_vendors_from_page, page_content being what
\* _fetch_page_content returned and vendors_ what _extract_with_claude returns
\* for it; neither call raises, so the except clause is never entered
extract_vendors_from_page(market_name, page_url, page_content, vendors_) ==
    IF page_content.none \/ page_content.text = ""
    THEN ExtractionResult(market_name, page_url, <<>>, FALSE,
                          JStr("Failed to fetch page content"))
    ELSE ExtractionResult(market_name, page_url, vendors_, TRUE, None)

(***************************************************************************)
(* Regular expressions as trees, matched the way re matches them: by       *)
(* backtracking, greedy repetitions first, alternatives from the left.     *)
(* ReMatch gives every position where a match of the node that starts at   *)
(* p can end, in the order the backtracking tries them; the first is the   *)
(* end of the match re reports.                                            *)
(***************************************************************************)

RLit(x) == [op |-> "lit", arg |-> x, set |-> {}, kids |-> <<>>]
RSet(cs) == [op |-> "set", arg |-> "", set |-> cs, kids |-> <<>>]
RCat(kids) == [op |-> "cat", arg |-> "", set |-> {}, kids |-> kids]
RAlt(kids) == [op |-> "alt", arg |-> "", set |-> {}, kids |-> kids]
RStar(kid) == [op |-> "star", arg |-> "", set |-> {}, kids |-> <<kid>>]
RPlus(kid) == [op |-> "plus", arg |-> "", set |-> {}, kids |-> <<kid>>]
ROpt(kid) == [op |-> "opt", arg |-> "", set |-> {}, kids |-> <<kid>>]

\* a|b|... of literals
RLits(texts) == RAlt([i \in 1..Len(texts) |-> RLit(texts[i])])

\* x{n}
RECURSIVE RTimes(_, _)
RTimes(kid, n) == IF n = 0 THEN <<>> ELSE <<kid>> \o RTimes(kid, n - 1)

UpperSet == {UpperChars[i] : i \in 1..26}
LowerSet == {LowerChars[i] : i \in 1..26}
\* \s
SpaceSet == Whitespace

RECURSIVE ReMatch(_, _, _)
RECURSIVE ReAll(_, _, _, _)
RECURSIVE ReCat(_, _, _, _)
RECURSIVE ReAlt(_, _, _, _)
RECURSIVE ReStar(_, _, _)
RECURSIVE ReStarAll(_, _, _, _)

\* the ends of the matches of node from each of the starts, in order
ReAll(node, s, starts, j) ==
    IF j > Len(starts) THEN <<>>
    ELSE ReMatch(node, s, starts[j]) \o ReAll(node, s, starts, j + 1)

\* the ends of the matches of kids[i..] in sequence from each of the starts
ReCat(kids, i, s, starts) ==
    IF i > Len(kids) \/ starts = <<>> THEN starts
    ELSE ReCat(kids, i + 1, s, ReAll(kids[i], s, starts, 1))

\* the ends of the matches of the alternatives kids[i..], the left ones first
ReAlt(kids, i, s, p) ==
    IF i > Len(kids) THEN <<>>
    ELSE ReMatch(kids[i], s, p) \o ReAlt(kids, i + 1, s, p)

\* kid*: one more repetition is tried before none
ReStarAll(kid, s, ends, j) ==
    IF j > Len(ends) THEN <<>>
    ELSE ReStar(kid, s, ends[j]) \o ReStarAll(kid, s, ends, j + 1)

ReStar(kid, s, p) ==
    LET Longer(e) == e > p
    IN ReStarAll(kid, s, SelectSeq(ReMatch(kid, s, p), Longer), 1) \o <<p>>

ReMatch(node, s, p) ==
    CASE node.op = "lit" ->
            IF StartsAt(s, node.arg, p) THEN <<p + Len(node.arg)>> ELSE <<>>
      [] node.op = "set" -> IF Ch(s, p) \in node.set THEN <<p + 1>> ELSE <<>>
      [] node.op = "cat" -> ReCat(node.kids, 1, s, <<p>>)
      [] node.op = "alt" -> ReAlt(node.kids, 1, s, p)
      [] node.op = "opt" -> ReMatch(node.kids[1], s, p) \o <<p>>
      [] node.op = "star" -> ReStar(node.kids[1], s, p)
      [] node.op = "plus" -> ReStarAll(node.kids[1], s, ReMatch(node.kids[1], s, p), 1)

\* the matches from position p on, starts being the positions where a match
\* starts: each search begins where the last match ended
RECURSIVE ReWalk(_, _, _, _)
ReWalk(node, s, starts, p) ==
    LET later == {q \in starts : q >= p}
        Found(q, end) ==
            <<Slice(s, q, end)>> \o ReWalk(node, s, starts, IF end > q THEN end ELSE q + 1)
        From(q) == Found(q, ReMatch(node, s, q)[1])
    IN IF later = {} THEN <<>>
       ELSE From(CHOOSE q \in later : \A r \in later : q <= r)

\* re.findall(pattern, s[p-1:]) for a pattern that is one capturing group: the
\* matches from left to right
ReFindAll(node, s, p) ==
    ReWalk(node, s, {q \in p..Len(s) : ReMatch(node, s, q) # <<>>}, p)

(***************************************************************************)
(* comprehensive_vendor_extractor.py.  A page is [status, text, links,     *)
(* tables, lists]: how its fetch ends, soup.get_text(), the a elements     *)
(* with an href as [text, href], the tables as [text, rows] (the text of   *)
(* the table and of each tr), the ul and ol elements as the texts of       *)
(* their li elements (lists are not nested).                               *)
(***************************************************************************)

vendor_indicators ==
    <<"vendors", "farmers", "growers", "producers", "artisans",
      "vendor directory", "our vendors", "meet the vendors",
      "participants", "market vendors", "vendor list">>

\* [A-Z][a-z]+
ReWord == RCat(<<RSet(UpperSet), RPlus(RSet(LowerSet))>>)
\* \s+
ReSpaces == RPlus(RSet(SpaceSet))
\* [A-Z][a-z]+(?:\s+[A-Z][a-z]+)*
ReWords == RCat(<<ReWord, RStar(RCat(<<ReSpaces, ReWord>>))>>)
\* ([A-Z][a-z]+(?:\s+[A-Z][a-z]+)*\s+(?:a|b|...))
ReNamed(kinds) == RCat(<<ReWords, ReSpaces, kinds>>)

vendor_name_patterns ==
    <<ReNamed(RLits(<<"Farm", "Farms", "Farmstead">>)),
      ReNamed(RLits(<<"Dairy", "Creamery">>)),
      ReNamed(RLits(<<"Bakery", "Kitchen">>)),
      ReNamed(RLits(<<"Orchard", "Orchards">>)),
      ReNamed(RAlt(<<RCat(<<RLit("Garden"), ROpt(RLit("s"))>>), RLit("Greenhouse")>>)),
      ReNamed(RLits(<<"Ranch", "Acres", "Estate">>)),
      ReNamed(RLits(<<"Produce", "Vegetables">>)),
      ReNamed(RLits(<<"Honey", "Maple">>)),
      RCat(<<ReWord, ReSpaces, ROpt(RCat(<<RLit("Family"), ReSpaces>>)),
             RLits(<<"Farm", "Farms">>)>>),
      ReNamed(RLits(<<"LLC", "Inc", "Co.">>)),
      RCat(<<RStar(RCat(<<ReWord, ReSpaces>>)), ReWord,
             RStar(RCat(<<ReSpaces, RLit("&"), ReSpaces, ReWord>>)),
             ReSpaces, RLit("Farm")>>)>>

ReDigit == RSet(DecimalDigits)

location_patterns ==
    <<RCat(<<RPlus(ReDigit), ReSpaces, ReWords, ReSpaces,
             RLits(<<"Road", "Rd", "Street", "St", "Avenue", "Ave", "Lane", "Ln",
                     "Drive", "Dr", "Boulevard", "Blvd">>)>>),
      RCat(<<ReWords, RLit(","), RStar(RSet(SpaceSet)), RCat(RTimes(RSet(UpperSet), 2)),
             ROpt(RCat(<<ReSpaces, RCat(RTimes(ReDigit, 5))>>))>>),
      RCat(<<ReWords, RLit(","), RStar(RSet(SpaceSet)), RLit("New"), ReSpaces,
             RLit("Jersey")>>),
      RCat(<<ReWords, RLit(","), RStar(RSet(SpaceSet)), RLit("NJ")>>)>>

product_keywords ==
    <<"organic", "fresh", "local", "seasonal", "grass-fed", "free-range",
      "vegetables", "fruits", "herbs", "flowers", "honey", "bread",
      "cheese", "milk", "eggs", "meat", "pork", "beef", "chicken",
      "produce", "tomatoes", "lettuce", "peppers", "onions", "carrots",
      "apples", "berries", "peaches", "corn", "squash", "beans">>

\* ([a-zA-Z0-9._%+-]+@[a-zA-Z0-9.-]+\.[a-zA-Z]{2,})
email_pattern ==
    LET alnum == UpperSet \cup LowerSet \cup DigitChars
        alpha == RSet(UpperSet \cup LowerSet)
    IN RCat(<<RPlus(RSet(alnum \cup {".", "_", "%", "+", "-"})), RLit("@"),
              RPlus(RSet(alnum \cup {".", "-"})), RLit("."), alpha, alpha, RStar(alpha)>>)

\* (\(?\d{3}\)?[-.\s]?\d{3}[-.\s]?\d{4})
phone_pattern ==
    LET sep == ROpt(RSet({"-", "."} \cup SpaceSet))
    IN RCat(<<ROpt(RLit("(")), RCat(RTimes(ReDigit, 3)), ROpt(RLit(")")), sep,
              RCat(RTimes(ReDigit, 3)), sep, RCat(RTimes(ReDigit, 4))>>)

\* _get_link_priority
get_link_priority(link_text) ==
    IF \E term \in {"vendor directory", "our vendors", "vendor list", "meet the vendors"} :
           Contains(link_text, term)
    THEN 3
    ELSE IF \E term \in {"vendors", "farmers", "growers", "current vendors"} :
                Contains(link_text, term)
    THEN 2
    ELSE 1

\* the loop of find_vendor_links from link i on: vendor_links is the list so far,
\* whose URLs are seen_urls; exc names the exception urljoin raises on a link and
\* msg is its str()
RECURSIVE CollectVendorLinks(_, _, _, _)
CollectVendorLinks(links, base_url, i, vendor_links) ==
    LET seen_urls == {vendor_links[k].url : k \in 1..Len(vendor_links)}
        Hits(link_text) ==
            {k \in 1..Len(vendor_indicators) : Contains(link_text, vendor_indicators[k])}
        First(hits) == CHOOSE k \in hits : \A h \in hits : k <= h
        Added(link_text, link_url) ==
            IF \/ link_url \in seen_urls
               \/ ~(StartsAt(link_url, "http://", 1) \/ StartsAt(link_url, "https://", 1))
               \/ Hits(link_text) = {}
            THEN vendor_links
            ELSE Append(vendor_links,
                        [text |-> link_text, url |-> link_url,
                         indicator |-> vendor_indicators[First(Hits(link_text))],
                         priority |-> get_link_priority(link_text)])
        Joined(joined) ==
            IF joined.exc # "" THEN [exc |-> joined.exc, msg |-> joined.msg, links |-> <<>>]
            ELSE CollectVendorLinks(links, base_url, i + 1,
                                    Added(Strip(Lower(links[i].text)), joined.url))
    IN IF i > Len(links) THEN [exc |-> "", msg |-> "", links |-> vendor_links]
       ELSE Joined(UrlJoin(base_url, links[i].href))

\* sorted(vendor_links, key=lambda x: x['priority'], reverse=True): a stable sort
SortByPriority(vendor_links) ==
    LET Of(n) == LET Has(l) == l.priority = n IN SelectSeq(vendor_links, Has)
    IN Of(3) \o Of(2) \o Of(1)

\* ComprehensiveVendorExtractor.find_vendor_links: the list returned, or the
\* exception raised
Comprehensive_find_vendor_links(links, base_url) ==
    LET Sorted(found) == [found EXCEPT !.links = SortByPriority(found.links)]
    IN Sorted(CollectVendorLinks(links, base_url, 1, <<>>))

\* the matches of every pattern of the list in the text, pattern by pattern
RECURSIVE FindAllPatterns(_, _, _)
FindAllPatterns(patterns, text, i) ==
    IF i > Len(patterns) THEN <<>>
    ELSE ReFindAll(patterns[i], text, 1) \o FindAllPatterns(patterns, text, i + 1)

\* seq[:n] of a sequence or a string
Prefix(seq, n) == IF Len(seq) <= n THEN seq ELSE SubSeq(seq, 1, n)

\* vendor_names: the stripped matches longer than 3 of the name patterns
page_vendor_names(page_text) ==
    LET matches == FindAllPatterns(vendor_name_patterns, page_text, 1)
    IN {Strip(matches[i]) : i \in {k \in 1..Len(matches) : Len(Strip(matches[k])) > 3}}

\* text[start:end] around the first occurrence of vendor_name, whatever its case,
\* before characters ahead of it and after characters behind it; found is FALSE
\* where vendor_pos is -1
Vicinity(text, vendor_name, before, after) ==
    LET Around(vendor_pos) ==
            [found |-> vendor_pos # 0,
             text |-> Slice(text, IF vendor_pos - before < 1 THEN 1 ELSE vendor_pos - before,
                            vendor_pos + Len(vendor_name) + after)]
    IN Around(Find(Lower(text), Lower(vendor_name), 1))

\* the first match of the first pattern that matches, None if no pattern does
RECURSIVE FirstPatternMatch(_, _, _)
FirstPatternMatch(patterns, text, i) ==
    LET Matched(matches) ==
            IF matches # <<>> THEN JStr(matches[1])
            ELSE FirstPatternMatch(patterns, text, i + 1)
    IN IF i > Len(patterns) THEN None ELSE Matched(ReFindAll(patterns[i], text, 1))

\* _find_location_near_vendor
find_location_near_vendor(text, vendor_name) ==
    LET Near(vicinity) ==
            IF ~vicinity.found THEN None
            ELSE FirstPatternMatch(location_patterns, vicinity.text, 1)
    IN Near(Vicinity(text, vendor_name, 100, 100))

\* _find_products_near_vendor
find_products_near_vendor(text, vendor_name) ==
    LET Near(found, vicinity) ==
            LET In(keyword) == Contains(vicinity, keyword)
            IN IF ~found THEN <<>> ELSE Prefix(SelectSeq(product_keywords, In), 5)
    IN Near(Vicinity(text, vendor_name, 50, 200).found,
            Lower(Vicinity(text, vendor_name, 50, 200).text))

\* _find_contact_info_near_vendor: the dict with the keys it sets, in order
find_contact_info_near_vendor(page) ==
    LET Farm(link) ==
            /\ StartsAt(link.href, "http://", 1) \/ StartsAt(link.href, "https://", 1)
            /\ Contains(Lower(link.href), "farm")
        Info(emails, phones, farms) ==
            JObj((IF emails # <<>> THEN <<"email">> ELSE <<>>)
                    \o (IF phones # <<>> THEN <<"phone">> ELSE <<>>)
                    \o (IF farms # <<>> THEN <<"website">> ELSE <<>>),
                 (IF emails # <<>> THEN <<JStr(emails[1])>> ELSE <<>>)
                    \o (IF phones # <<>> THEN <<JStr(phones[1])>> ELSE <<>>)
                    \o (IF farms # <<>> THEN <<JStr(farms[1].href)>> ELSE <<>>))
    IN Info(ReFindAll(email_pattern, page.text, 1), ReFindAll(phone_pattern, page.text, 1),
            SelectSeq(page.links, Farm))

\* the vendor_info of a name found by the patterns in the page text
NamedVendor(page, url, vendor_name) ==
    [name |-> vendor_name, page_url |-> url,
     location |-> find_location_near_vendor(page.text, vendor_name),
     products |-> find_products_near_vendor(page.text, vendor_name),
     contact_info |-> find_contact_info_near_vendor(page),
     description |-> None]

\* the vendors of one table row or list item: one for every match of every pattern
RowVendors(row_text, url) ==
    LET matches == FindAllPatterns(vendor_name_patterns, row_text, 1)
    IN [i \in 1..Len(matches) |->
            [name |-> matches[i], page_url |-> url, location |-> None,
             products |-> <<>>, contact_info |-> JObj(<<>>, <<>>),
             description |-> JStr(Prefix(row_text, 200))]]

\* the vendors of the rows from the i-th on whose stripped text is longer than
\* least
RECURSIVE RowsVendors(_, _, _, _)
RowsVendors(rows, url, least, i) ==
    IF i > Len(rows) THEN <<>>
    ELSE (IF Len(Strip(rows[i])) > least THEN RowVendors(Strip(rows[i]), url) ELSE <<>>)
         \o RowsVendors(rows, url, least, i + 1)

RECURSIVE TablesVendors(_, _, _)
TablesVendors(tables, url, i) ==
    IF i > Len(tables) THEN <<>>
    ELSE (IF \E keyword \in {"vendor", "farm", "business"} :
                Contains(Lower(tables[i].text), keyword)
          THEN RowsVendors(tables[i].rows, url, 10, 1) ELSE <<>>)
         \o TablesVendors(tables, url, i + 1)

RECURSIVE ListsVendors(_, _, _)
ListsVendors(lists, url, i) ==
    IF i > Len(lists) THEN <<>>
    ELSE RowsVendors(lists[i], url, 5, 1) \o ListsVendors(lists, url, i + 1)

\* _extract_structured_vendors
extract_structured_vendors(page, url) ==
    TablesVendors(page.tables, url, 1) \o ListsVendors(page.lists, url, 1)

\* ComprehensiveVendorExtractor.extract_vendors_from_page for a page that was
\* fetched, names being vendor_names in the order the for loop iterates the set
Comprehensive_extract_vendors_from_page(page, url, names) ==
    [i \in 1..Len(names) |-> NamedVendor(page, url, names[i])]
    \o extract_structured_vendors(page, url)

\* UniqueVendors if the last vendor of a name were the one kept
RECURSIVE UniqueVendors_lastKept(_, _, _)
UniqueVendors_lastKept(vendors_, i, unique_vendors) ==
    IF i > Len(vendors_) THEN unique_vendors
    ELSE UniqueVendors_lastKept(vendors_, i + 1,
            IF \E k \in (i + 1)..Len(vendors_) : vendors_[k].name = vendors_[i].name
            THEN unique_vendors ELSE Append(unique_vendors, vendors_[i]))

\* the vendors whose name is not among the names of the vendors before them
RECURSIVE UniqueVendors(_, _, _)
UniqueVendors(vendors_, i, unique_vendors) ==
    IF i > Len(vendors_) THEN unique_vendors
    ELSE UniqueVendors(vendors_, i + 1,
            IF \E k \in 1..Len(unique_vendors) : unique_vendors[k].name = vendors_[i].name
            THEN unique_vendors ELSE Append(unique_vendors, vendors_[i]))

\* the orders in which a for loop may iterate a set of strings
Orders(set) ==
    {order \in [1..Cardinality(set) -> set] :
        \A i, j \in 1..Cardinality(set) : order[i] = order[j] => i = j}

\* the page a site serves at url: a site is [main, pages], a page carrying its URL
\* in the field url; a URL the site does not know ends in an HTTP error
PageAt(site_, url) ==
    IF \E i \in 1..Len(site_.pages) : site_.pages[i].url = url
    THEN site_.pages[CHOOSE i \in 1..Len(site_.pages) : site_.pages[i].url = url]
    ELSE [url |-> url, status |-> "http_error", text |-> "", links |-> <<>>,
          tables |-> <<>>, lists |-> <<>>]

\* what the loop over vendor_links[:3] adds to result['vendors']: the vendors of
\* the pages of the links followed that were fetched; extraction[url] is what
\* extract_vendors_from_page returns on the page fetched at url
FollowLinks(site_, followed, extraction) ==
    LET Followed(link, vendor_soup) ==
            IF vendor_soup.status = "ok" THEN extraction[link.url] ELSE <<>>
        Link(i) ==
            IF i > Len(followed) THEN <<>>
            ELSE Followed(followed[i], PageAt(site_, followed[i].url))
    IN Link(1) \o Link(2) \o Link(3)

\* ComprehensiveVendorExtractor.process_market: result is the dict returned
\* (processing_time is not modelled), raw is result['vendors'] before the
\* duplicates are removed.  The except clause is entered when find_vendor_links
\* raises: result['error'] = str(e), and nothing else of the result was set.
process_market(market_name, market_url, site_, extraction) ==
    LET Result(vendor_links, raw, error) ==
            [result |-> [market_name |-> market_name, market_url |-> market_url,
                         vendor_pages_found |-> Prefix(vendor_links, 5),
                         vendors |-> UniqueVendors(raw, 1, <<>>),
                         error |-> error],
             raw |-> raw]
        Fetched_(vendor_links) ==
            Result(vendor_links,
                   extraction[market_url]
                       \o FollowLinks(site_, Prefix(vendor_links, 3), extraction),
                   None)
        Found(found) ==
            IF found.exc # "" THEN Result(<<>>, <<>>, JStr(found.msg))
            ELSE Fetched_(found.links)
    IN IF site_.main.status # "ok"
       THEN Result(<<>>, <<>>, JStr("Failed to fetch main page"))
       ELSE Found(Comprehensive_find_vendor_links(site_.main.links, market_url))

\* s.replace(old, "")
RECURSIVE Remove(_, _)
Remove(s, old) ==
    LET Cut(at) ==
            IF at = 0 THEN s
            ELSE Slice(s, 1, at) \o Remove(Slice(s, at + Len(old), Len(s) + 1), old)
    IN Cut(Find(s, old, 1))

\* the markets process_all_markets loads from the rows of the CSV file (a row is
\* its first cell here; an empty text is a row without cells or with an empty
\* first cell), from row i on
RECURSIVE LoadMarkets(_, _)
LoadMarkets(rows, i) ==
    LET Market(url) ==
            [name |-> SplitOn(Remove(Remove(url, "https://"), "http://"), "/", 1)[1],
             url |-> url, index |-> i - 1]
        Row(url) ==
            IF StartsAt(rows[i], "#", 1) \/ url = "" THEN <<>>
            ELSE IF StartsAt(url, "http://", 1) \/ StartsAt(url, "https://", 1)
            THEN <<Market(url)>>
            ELSE <<Market("https://" \o url)>>
    IN IF i > Len(rows) THEN <<>> ELSE Row(Strip(rows[i])) \o LoadMarkets(rows, i + 1)

(***************************************************************************)
(* The LLM responses the parsers are run on.  A response is an array of    *)
(* vendor objects in the layout the prompts ask for, optionally with a     *)
(* trailing comma, optionally wrapped in prose and a code fence (the       *)
(* shapes of test_responses and test_cases), or one of the other texts of  *)
(* OtherTexts.                                                             *)
(***************************************************************************)

\* the most vendor objects in one response array
MaxVendors == 2

VendorNames == <<"A Farm", "Backer Farm", "Cedar Kitchen", "Dell Dairy">>

\* c repeated n times
RECURSIVE Repeated(_, _)
Repeated(c, n) ==
    IF n = 0 THEN ""
    ELSE IF n % 2 = 1 THEN c \o Repeated(c, n - 1)
    ELSE Repeated(c \o c, n \div 2)

\* an integer of one digit more than float() takes, and one of one digit more
\* than int() reads
LargeInteger == "1" \o Repeated("0", Len(FloatLimit))
LongInteger == Repeated("1", MaxStrDigits + 1)

\* the ways the confidence member of the first object is written ("" is absent)
ShortConfidenceTexts == {"", "0.9", "null", "\"high\"", "5"}
ConfidenceTexts == ShortConfidenceTexts \cup {LargeInteger, LongInteger}

\* the first object of an array: which members it has, and whether a comma follows
\* its last member
FirstObjects ==
    [named : {TRUE}, bt : {TRUE}, products : BOOLEAN, conf : ShortConfidenceTexts,
     comma : BOOLEAN]
    \cup [named : {TRUE}, bt : {TRUE}, products : {FALSE},
          conf : ConfidenceTexts \ ShortConfidenceTexts, comma : {FALSE}]
    \cup [named : BOOLEAN, bt : {FALSE}, products : {FALSE}, conf : {""}, comma : {FALSE}]

\* the later objects of an array: named, with a business type, with or without products
LaterObject(withProducts) ==
    [named |-> TRUE, bt |-> TRUE, products |-> withProducts, conf |-> "", comma |-> FALSE]

Wraps == {"bare", "lead", "fence", "fence_json"}

\* texts that are not a vendor array: prose, JSON scalars, a bare object, name keys
\* outside any valid JSON, brackets inside strings, unbalanced brackets
OtherTexts ==
    {"",
     "I searched through the website content but was unable to find a clear list of vendors.",
     "\"No vendors were found on this page.\"",
     "42",
     "null",
     "{\"name\": \"A Farm\", \"business_type\": \"farm\"}",
     "\"name\": \"A Farm\", \"Name\": \"Backer Farm\"",
     "name: \"A Farm\"",
     "[{\"name\": \"A Farm\", \"business_type\": \"farm\"",
     "[{\"name\": \"A [organic] Farm\"}]",
     "~~~json\n[\"a]b\"]\n~~~",
     "Vendors: [\"A Farm\", \"Backer Farm\"]"}

ArrayShapes ==
    {[kind |-> "array", objs |-> o, comma |-> c, wrap |-> w, text |-> ""] :
        o \in (UNION {[1..n -> BOOLEAN] : n \in 0..(MaxVendors - 1)}) \X FirstObjects,
        c \in BOOLEAN, w \in Wraps}

\* a shape is [kind, objs, comma, wrap, text]: for kind "array", objs is <<later,
\* first>> (later[i] says whether object i+1 has products; an empty array has no
\* first object either, see EmptyArrayShapes); for kind "other", text is the text
EmptyArrayShapes ==
    {[kind |-> "empty", objs |-> <<>>, comma |-> FALSE, wrap |-> w, text |-> ""] : w \in Wraps}

OtherShapes ==
    {[kind |-> "other", objs |-> <<>>, comma |-> FALSE, wrap |-> "bare", text |-> t] :
        t \in OtherTexts}

Shapes == ArrayShapes \cup EmptyArrayShapes \cup OtherShapes

\* one vendor object as text
ObjectText(o, name) ==
    "{"
    \o (IF o.named THEN "\"name\": \"" \o name \o "\", " ELSE "")
    \o "\"business_type\": " \o (IF o.bt THEN "\"farm\"" ELSE "null")
    \o (IF o.products THEN ", \"products\": [\"greens\", \"lettuce\"]" ELSE "")
    \o (IF o.conf # "" THEN ", \"confidence\": " \o o.conf ELSE "")
    \o (IF o.comma THEN "," ELSE "")
    \o "}"

\* the objects of an array shape, in order, as texts
ObjectTexts(sh) ==
    IF sh.kind # "array" THEN <<>>
    ELSE [i \in 1..(Len(sh.objs[1]) + 1) |->
            IF i = 1 THEN ObjectText(sh.objs[2], VendorNames[1])
            ELSE ObjectText(LaterObject(sh.objs[1][i - 1]), VendorNames[i])]

RECURSIVE JoinLines(_, _)
JoinLines(texts, i) ==
    IF i > Len(texts) THEN ""
    ELSE (IF i > 1 THEN ",\n  " ELSE "") \o texts[i] \o JoinLines(texts, i + 1)

\* the array itself
ArrayText(sh) ==
    IF ObjectTexts(sh) = <<>> THEN "[]"
    ELSE "[\n  " \o JoinLines(ObjectTexts(sh), 1) \o (IF sh.comma THEN "," ELSE "") \o "\n]"

\* the response text of a shape
RenderResponse(sh) ==
    CASE sh.kind = "other" -> sh.text
      [] sh.wrap = "bare" -> ArrayText(sh)
      [] sh.wrap = "lead" -> "I found these vendors:\n" \o ArrayText(sh)
      [] sh.wrap = "fence" ->
            "Here are the vendors I found:\n\n" \o Fence \o "\n" \o ArrayText(sh)
            \o "\n" \o Fence \o "\n\nThese vendors were extracted from the website."
      [] sh.wrap = "fence_json" ->
            "Here are the vendors I found:\n\n" \o Fence \o "json\n" \o ArrayText(sh)
            \o "\n" \o Fence \o "\n\nThese vendors were extracted from the website."

\* result before any parser ran.  value: what improved_json_parser and
\* debug_parse_json_response return; vendors: the Vendor or ExtractedVendor list;
\* extraction_success, error_message: the fields of VendorExtractionResult
NoResult ==
    [value |-> None, vendors |-> <<>>, extraction_success |-> FALSE, error_message |-> None]

(***************************************************************************)
(* What a response denotes, read off its shape without any parser.         *)
(***************************************************************************)

\* the JSON value a confidence text of ConfidenceTexts denotes
ConfidenceValue(c) ==
    CASE c = "\"high\"" -> JStr("high")
      [] c \in {"", "null"} -> None
      [] OTHER -> JNum(c)

\* the record an object of a shape denotes, members in the order ObjectText writes them
ExpectedObject(o, name) ==
    JObj((IF o.named THEN <<"name">> ELSE <<>>) \o <<"business_type">>
            \o (IF o.products THEN <<"products">> ELSE <<>>)
            \o (IF o.conf # "" THEN <<"confidence">> ELSE <<>>),
         (IF o.named THEN <<JStr(name)>> ELSE <<>>)
            \o <<IF o.bt THEN JStr("farm") ELSE None>>
            \o (IF o.products THEN <<JArr(<<JStr("greens"), JStr("lettuce")>>)>> ELSE <<>>)
            \o (IF o.conf # "" THEN <<ConfidenceValue(o.conf)>> ELSE <<>>))

\* the records an array shape denotes, in order
ExpectedRecords(sh) ==
    IF sh.kind # "array" THEN <<>>
    ELSE [i \in 1..(Len(sh.objs[1]) + 1) |->
            IF i = 1 THEN ExpectedObject(sh.objs[2], VendorNames[1])
            ELSE ExpectedObject(LaterObject(sh.objs[1][i - 1]), VendorNames[i])]

\* the response is a JSON array of objects without a stray comma, bare or wrapped
WellFormedArray(sh) ==
    \/ sh.kind = "empty"
    \/ sh.kind = "array" /\ ~sh.comma /\ ~sh.objs[2].comma

\* every object of the array has a name
AllNamed(sh) == sh.kind = "array" => sh.objs[2].named

\* some object of the array has a products array
HasProducts(sh) ==
    /\ sh.kind = "array"
    /\ sh.objs[2].products \/ \E i \in 1..Len(sh.objs[1]) : sh.objs[1][i]

\* the value of a decimal lexeme in hundredths (digits beyond the second decimal
\* are not used by the texts modelled)
DigitValue(c) == CHOOSE d \in 0..9 : Ch("0123456789", d + 1) = c

RECURSIVE IntValue(_)
IntValue(digits) ==
    IF digits = "" THEN 0
    ELSE 10 * IntValue(SubSeq(digits, 1, Len(digits) - 1)) + DigitValue(Ch(digits, Len(digits)))

Hundredths(lexeme) ==
    LET dot == Find(lexeme, ".", 1)
        whole == IF dot = 0 THEN lexeme ELSE Slice(lexeme, 1, dot)
        frac == IF dot = 0 THEN "" ELSE Slice(lexeme, dot + 1, Len(lexeme) + 1)
    IN 100 * IntValue(whole)
       + (IF Len(frac) >= 1 THEN 10 * DigitValue(Ch(frac, 1)) ELSE 0)
       + (IF Len(frac) >= 2 THEN DigitValue(Ch(frac, 2)) ELSE 0)

\* v is a number in [0, 1] (its integer part is one digit: a json number has
\* no leading zero)
NumericInUnitInterval(v) ==
    v.t = "num" /\ Ch(v.s, 1) # "-" /\ ~IsDigit(Ch(v.s, 2)) /\ Hundredths(v.s) <= 100

\* the response text has none of: a bracket, a brace, a code fence, a name key
IsPlainProse(text) ==
    /\ ~Contains(text, "[") /\ ~Contains(text, "]")
    /\ ~Contains(text, "{") /\ ~Contains(text, "}")
    /\ ~Contains(text, Fence)
    /\ ~Contains(Lower(text), "name")

(***************************************************************************)
(* The links and page texts the scorers are run on.                        *)
(***************************************************************************)

\* an anchor text is a keyword of the finder's rubric, or a word outside it,
\* between a prefix and a suffix
LinkPrefixes == {"", "Our ", "Meet the ", "Vendors and "}
LinkSuffixes == {"", " list", " for our farmers"}
LinkWords ==
    {high_priority[i] : i \in 1..Len(high_priority)}
    \cup {medium_priority[i] : i \in 1..Len(medium_priority)}
    \cup {low_priority[i] : i \in 1..Len(low_priority)}
    \cup {"contact"}
LinkTexts == {p \o w \o x : p \in LinkPrefixes, w \in LinkWords, x \in LinkSuffixes}

\* link URLs whose path matches no keyword, one, and enough of them to pass 1.0
LinkUrls ==
    {"https://market.org/about",
     "https://market.org/vendors",
     "https://market.org/farmers/growers.html?tab=vendors",
     "https://market.org/Vendors/Our-Farmers/growers/producers"}

\* the most lines of the vendor directory in a page text
MaxLines == 6
\* the most repetitions of the phone line and of the e-mail line in a page text
MaxRepeat == 3

DirectoryLines ==
    <<"Green Acres Farm - organic vegetables and herbs.\n",
      "Sunny Bakery: handmade bread, fresh pastry and pies.\n",
      "Willow Creek Orchard - certified apples and pears.\n",
      "Happy Hen Ranch LLC offers fresh eggs and makes jam.\n",
      "Stone Mill Kitchen - family owned, sells soups.\n",
      "Oak Hill Dairy - produces raw milk cheese.\n",
      "Red Barn Creamery - makes butter and sells cream.\n">>
PhoneLine == "Phone: 555-123-4567\n"
EmailLine == "Email: info@acres.com\n"

RECURSIVE Repeat(_, _)
Repeat(line, n) == IF n = 0 THEN "" ELSE line \o Repeat(line, n - 1)

\* the first n lines of the directory (all of them when n is larger)
RECURSIVE FirstLines(_)
FirstLines(n) ==
    IF n = 0 THEN ""
    ELSE FirstLines(n - 1) \o (IF n <= Len(DirectoryLines) THEN DirectoryLines[n] ELSE "")

\* a page text: a greeting, directory lines, phone lines, e-mail lines
PageText(lines, phones, emails) ==
    "Welcome to the market. " \o FirstLines(lines)
    \o Repeat(PhoneLine, phones) \o Repeat(EmailLine, emails)

ContentTexts ==
    {PageText(l, p, e) : l \in 0..MaxLines, p \in 0..MaxRepeat, e \in 0..MaxRepeat}

\* the URL the crawler's scorer is given with a page text
ScoredPageUrl == "https://market.org/vendors"

\* scored before any scorer ran.  exc: the exception the scorer raised ("" when it
\* returned); score: the float returned; reasons: the reasons the finder's
\* scorers return with it; vendors: the vendors the crawler extracted from the
\* page text before it computed the confidence
NoScore == [exc |-> "", score |-> F_0_0, reasons |-> <<>>, vendors |-> <<>>]

\* no scorer is running
ScorerIdle ==
    /\ in_link_text = "" /\ in_link_url = "" /\ in_content = ""
    /\ scorer = "none" /\ scored = NoScore

(***************************************************************************)
(* The sites the crawl loops are run on.                                   *)
(***************************************************************************)

BaseUrl == "https://market.org"

\* the links a root page may carry, as (anchor text, href): links to pages of the
\* site, a link that scores less than the links after it, links of equal score,
\* two links to one page, a file, another site, a link without text, an href that
\* is neither absolute nor rooted
LinkPool ==
    <<[text |-> "Contact Us", href |-> "/contact"],
      [text |-> "Producers", href |-> "/producers"],
      [text |-> "Our Vendors", href |-> "/vendors"],
      [text |-> "Meet the Farmers", href |-> "/farmers"],
      [text |-> "Vendors", href |-> "https://market.org/vendors"],
      [text |-> "Growers", href |-> "/growers"],
      [text |-> "Vendor map", href |-> "/files/vendors.pdf"],
      [text |-> "Farmers union", href |-> "https://union.org/farmers"],
      [text |-> "", href |-> "/vendors/list"],
      [text |-> "Market Vendors", href |-> "vendors.html"]>>

\* the links of a window of the pool
WindowLinks == 5
\* the most links on a root page
MaxLinks == 7
\* the most fetches of one crawl that end in a non-200 status or an exception
\* (a crawl fetches at most six pages, so every fetch of a crawl may fail)
MaxFailures == 6
\* the most crawls one crawler object starts
MaxCrawls == 2
\* the greatest max_depth a crawler object is constructed with
MaxDepth == 2

\* the n links of the pool from the start-th on, around the end of the pool
LinkWindow(start, n) ==
    [i \in 1..n |-> LinkPool[((start + i - 2) % Len(LinkPool)) + 1]]

\* links whose href makes urlparse or urljoin raise ValueError, and one with such
\* an href that is skipped for its empty text before its href is looked at
BrokenLinks ==
    <<[text |-> "Vendor List", href |-> "http://[market.org/vendors"],
      [text |-> "Farmers", href |-> "//[market.org/farmers"],
      [text |-> " ", href |-> "//[market.org/growers"]>>

\* links to different pages of the site that pass the filter of the crawler with
\* a score above 0.2, all but the last two that of the finder too
VendorLinkPool ==
    <<[text |-> "Producers", href |-> "/producers"],
      [text |-> "Our Vendors", href |-> "/vendors"],
      [text |-> "Meet the Farmers", href |-> "/farmers"],
      [text |-> "Growers", href |-> "/growers"],
      [text |-> "Vendor Directory", href |-> "/directory"],
      [text |-> "Participants", href |-> "/participants"],
      [text |-> "Artisans", href |-> "/artisans"],
      [text |-> "Vendor list", href |-> "/list"]>>

\* a root page with more such links than either crawl takes from a page
CrowdedLinks == [i \in 1..MaxLinks |-> VendorLinkPool[((i - 1) % Len(VendorLinkPool)) + 1]]

\* the link lists of the root pages: the windows of the pool, a broken link
\* between two links to pages of the site, and the crowded page
RootLinkLists ==
    {LinkWindow(start, WindowLinks) : start \in 1..Len(LinkPool)}
    \cup {<<LinkPool[3], BrokenLinks[k], LinkPool[4]>> : k \in 1..Len(BrokenLinks)}
    \cup {CrowdedLinks}

\* root page texts: no vendor words at all, some (below both thresholds), and
\* enough to make the root a candidate
RootTexts == {PageText(0, 0, 0), PageText(2, 0, 0), PageText(3, 0, 0)}

Sites == {[root_text |-> t, links |-> ls] : t \in RootTexts, ls \in RootLinkLists}

\* what soup.get_text() gives for a page of the site
PageTextOf(st, url) ==
    IF url = BaseUrl THEN st.root_text
    ELSE IF url = "https://market.org/vendors" THEN PageText(6, 3, 3)
    ELSE IF url = "https://market.org/farmers" THEN PageText(3, 0, 0)
    ELSE IF url = "https://market.org/growers" THEN PageText(2, 0, 0)
    ELSE PageText(0, 0, 0)

AllPageTexts == RootTexts \cup {PageText(6, 3, 3)}

Variants == {"finder", "crawler"}

\* the finder's analysis of every page text of the sites, computed once:
\* content_score of the cleaned text
FinderAnalysis ==
    [t \in AllPageTexts |-> analyze_content_for_vendors(CleanText(t)).score]

\* the names of a list of vendors, in order
VendorNamesOf(vendors) == [k \in 1..Len(vendors) |-> Get(vendors[k], "name", None).s]

\* what the crawler makes of a cleaned page text: the vendors extracted from it and
\* the confidence computed for them
CrawlerPage(content) ==
    LET Analysed(vendors) ==
            [vendors |-> VendorNamesOf(vendors),
             confidence |-> calculate_vendor_page_confidence(content, vendors)]
    IN Analysed(extract_vendors_from_content(content, BaseUrl))

\* the crawler's analysis of every page text of the sites, computed once
CrawlerAnalysis == [t \in AllPageTexts |-> CrawlerPage(CleanText(t))]

\* the links either loop offers to its queue for every root page of the sites,
\* or the exception its loop over the links raises, computed once
TopVendorLinks ==
    [v \in Variants, ls \in RootLinkLists |->
        IF v = "finder" THEN FinderVendorLinks(ls, BaseUrl)
        ELSE find_vendor_links(ls, BaseUrl)]

\* no crawl is modelled
CrawlIdle ==
    /\ variant = "finder" /\ max_depth = MaxDepth
    /\ site = [root_text |-> "", links |-> <<>>]
    /\ visited_urls = {} /\ to_visit = <<>> /\ candidates = <<>>
    /\ pc = "idle" /\ crawls = 0 /\ fetch_log = <<>>

(***************************************************************************)
(* analyze_vendors.py.  A vendor is [name, type]: vendor['name'] and        *)
(* vendor.get('type') (None when the key is absent).                        *)
(***************************************************************************)

bad_indicators ==
    <<"site design", "limited edition", "organic cotton", "menu close",
      "skip to content", "open menu", "copyright", "©", "all rights",
      "entering its", "delightful place", "friendly volunteers">>

MinNameLength == 3
MaxNameLength == 50

good_types == <<"farm", "bakery", "kitchen", "market", "garden", "orchard">>

\* the words of \b(farm|bakery|kitchen|market|garden|orchard|dairy|ranch)\b and
\* of \b(organic|fresh|local|family)\b
good_business_words ==
    <<"farm", "bakery", "kitchen", "market", "garden", "orchard", "dairy", "ranch">>
good_quality_words == <<"organic", "fresh", "local", "family">>

\* [A-Z][a-z]+'s under re.IGNORECASE
possessive_pattern ==
    RCat(<<RSet(UpperSet \cup LowerSet), RPlus(RSet(UpperSet \cup LowerSet)),
           RLit("'"), RSet({"s", "S"})>>)

\* re.search(r'\b(w1|w2|...)\b', name, re.IGNORECASE)
SearchWords(words, name) ==
    \E k \in 1..Len(words), i \in 1..Len(name) :
        /\ StartsAt(Lower(name), words[k], i)
        /\ WordBoundary(name, i)
        /\ WordBoundary(name, i + Len(words[k]))

\* re.search(pattern, name)
ReSearch(node, name) == \E i \in 1..Len(name) : ReMatch(node, name, i) # <<>>

\* any(re.search(pattern, name, re.IGNORECASE) for pattern in good_patterns)
MatchesGoodPattern(name) ==
    \/ SearchWords(good_business_words, name)
    \/ SearchWords(good_quality_words, name)
    \/ ReSearch(possessive_pattern, name)

\* any(indicator in name.lower() for indicator in bad_indicators)
HasBadIndicator(name) ==
    \E k \in 1..Len(bad_indicators) : Contains(Lower(name), bad_indicators[k])

\* vendor.get('type') in good_types
HasGoodType(vendor_) ==
    \E k \in 1..Len(good_types) : vendor_.type = JStr(good_types[k])

\* the parsing errors clean_vendor_name removes at the start of a name
parsing_errors ==
    <<"Produce", "Herbs", "Jersey Clams", "Sheep Dairy Products", "Pet Items",
      "Oil Baked Goods & Sweets">>

\* re.sub(r'^(Produce|...)', '', name): the first alternative the name starts
\* with is removed
RemoveParsingError(name) ==
    LET hits == {k \in 1..Len(parsing_errors) : StartsAt(name, parsing_errors[k], 1)}
        first == CHOOSE k \in hits : \A h \in hits : k <= h
    IN IF hits = {} THEN name
       ELSE Slice(name, Len(parsing_errors[first]) + 1, Len(name) + 1)

\* re.sub(r'([a-z])([A-Z])', r'\1 \2', name) from character i on: a space is put
\* between a lower-case letter and the capital that follows it
RECURSIVE SpaceBeforeCapitals(_, _)
SpaceBeforeCapitals(name, i) ==
    IF i > Len(name) THEN ""
    ELSE Ch(name, i)
         \o (IF IsLower(Ch(name, i)) /\ IsUpper(Ch(name, i + 1)) THEN " " ELSE "")
         \o SpaceBeforeCapitals(name, i + 1)

prefixes_to_remove == <<"Site design by The", "THICGet one of our limited", "The ", "A ">>

\* the loop over prefixes_to_remove from prefix k on
RECURSIVE RemovePrefixes(_, _)
RemovePrefixes(name, k) ==
    IF k > Len(prefixes_to_remove) THEN name
    ELSE RemovePrefixes(IF StartsAt(name, prefixes_to_remove[k], 1)
                        THEN Strip(Slice(name, Len(prefixes_to_remove[k]) + 1, Len(name) + 1))
                        ELSE name,
                        k + 1)

\* clean_vendor_name
clean_vendor_name(name) ==
    Strip(RemovePrefixes(SpaceBeforeCapitals(RemoveParsingError(name), 1), 1))

\* is_likely_vendor if the declared type were looked at first
is_likely_vendor_typeFirst(vendor_) ==
    IF HasGoodType(vendor_) THEN TRUE
    ELSE IF HasBadIndicator(vendor_.name) THEN FALSE
    ELSE IF Len(vendor_.name) < MinNameLength \/ Len(vendor_.name) > MaxNameLength THEN FALSE
    ELSE MatchesGoodPattern(vendor_.name)

is_likely_vendor(vendor_) ==
    IF HasBadIndicator(vendor_.name) THEN FALSE
    ELSE IF Len(vendor_.name) < MinNameLength \/ Len(vendor_.name) > MaxNameLength THEN FALSE
    ELSE IF HasGoodType(vendor_) THEN TRUE
    ELSE IF MatchesGoodPattern(vendor_.name) THEN TRUE
    ELSE FALSE

(***************************************************************************)
(* scraper.py.  The answer to a fetch is [status, content_length, title,    *)
(* text, hrefs]: status is "exception" when session.get raises a            *)
(* RequestException and the HTTP status otherwise; content_length is        *)
(* len(response.content), title the text of the title element (None         *)
(* without one), text soup.get_text() after the script and style elements  *)
(* are removed, hrefs the href of every a element that has one.            *)
(***************************************************************************)

HasScheme(url) == StartsAt(url, "http://", 1) \/ StartsAt(url, "https://", 1)

InvalidUrls == {"https://or facebook.com", "https://facebook.com"}

\* the URL after "Handle incomplete URLs"
WithScheme(url) ==
    IF StartsAt(url, "facebook.com", 1) \/ StartsAt(url, "www.", 1) THEN "https://" \o url
    ELSE IF ~HasScheme(url) THEN "https://" \o url
    ELSE url

\* clean_url if no URL were skipped as obviously invalid
clean_url_noneSkipped(url) ==
    IF url = None \/ url.s = "" \/ Strip(url.s) = "" THEN None
    ELSE JStr(WithScheme(Strip(url.s)))

\* clean_url(url): url is a str or None, and so is the value returned
clean_url(url) ==
    IF url = None \/ url.s = "" \/ Strip(url.s) = "" THEN None
    ELSE IF WithScheme(Strip(url.s)) \in InvalidUrls THEN None
    ELSE JStr(WithScheme(Strip(url.s)))

categorize_site(url) ==
    IF Contains(url, "facebook.com") THEN "facebook"
    ELSE IF \E gov \in {".gov", "twp.", "borough", "city"} : Contains(url, gov)
         THEN "municipal"
    ELSE IF Contains(url, "chamber") THEN "chamber"
    ELSE IF Contains(url, "farmersmarket") \/ Contains(url, "market") THEN "dedicated_market"
    ELSE "other"

ScrapedSite(market_name, url, status_code, content_length, title, text_content, links, error, site_type) ==
    [market_name |-> market_name, url |-> url, status_code |-> status_code,
     content_length |-> content_length, title |-> title,
     text_content |-> text_content, links |-> links, error |-> error,
     site_type |-> site_type]

TextLimit == 5000
LinkLimit == 20

\* no site was returned
NoSite == ScrapedSite("", None, None, None, None, "", <<>>, None, "")

\* what one href adds to the links of scrape_site, joined being what urljoin
\* gives for it: an href that starts with http as it is, one that starts with /
\* joined to the URL fetched, or the exception urljoin raises
ScrapedHref(href, joined) ==
    IF StartsAt(href, "http", 1) THEN VendorLinks("", <<href>>)
    ELSE IF StartsAt(href, "/", 1) THEN VendorLinks(joined.exc, <<joined.url>>)
    ELSE VendorLinks("", <<>>)

\* one pass of the loop over the links of scrape_site
ScrapedStep(added, later) == LinkStep(added, added.links, later)

\* the loop over the links of scrape_site from the i-th href on, b being
\* urlparse(base): the links, or the exception urljoin raises
RECURSIVE ScrapedLinks(_, _, _, _)
ScrapedLinks(hrefs, base, b, i) ==
    IF i > Len(hrefs) THEN VendorLinks("", <<>>)
    ELSE ScrapedStep(ScrapedHref(hrefs[i], JoinOnto(b, base, hrefs[i])),
                     ScrapedLinks(hrefs, base, b, i + 1))

\* scrape_site(market_name, url), response being the answer session.get would
\* give for the cleaned URL: [exc, site, fetched], fetched the URLs session.get
\* was called with; str(e) of the RequestException raised is "request failed"
\* here.  exc names the exception that leaves scrape_site, which returns no site
\* then: the ValueError of urljoin is no RequestException.
scrape_site(market_name, url, response) ==
    LET Invalid ==
            ScrapedSite(market_name, url, None, None, None, "", <<>>,
                        JStr("Invalid URL"), "invalid")
        Failed_(cleaned, error, status_code) ==
            ScrapedSite(market_name, JStr(cleaned), status_code, None, None, "", <<>>,
                        error, categorize_site(cleaned))
        Scraped(cleaned, text_content, links) ==
            ScrapedSite(market_name, JStr(cleaned), JNum("200"),
                        response.content_length,
                        IF response.title = None THEN None
                        ELSE JStr(Strip(response.title.s)),
                        Take(text_content, TextLimit),
                        Take(links, LinkLimit),
                        None, categorize_site(cleaned))
        Answered(cleaned, text_content, found) ==
            [exc |-> IF response.status = "200" THEN found.exc ELSE "",
             site |->
                IF response.status = "exception"
                THEN Failed_(cleaned, JStr("request failed"), None)
                ELSE IF response.status # "200"
                THEN Failed_(cleaned, JStr("HTTP " \o response.status), JNum(response.status))
                ELSE IF found.exc # "" THEN NoSite
                ELSE Scraped(cleaned, text_content, found.links),
             fetched |-> <<cleaned>>]
        Cleaned(cleaned) ==
            IF cleaned = None
            THEN [exc |-> "", site |-> Invalid, fetched |-> <<>>]
            ELSE Answered(cleaned.s, CleanText(response.text),
                          ScrapedLinks(response.hrefs, cleaned.s, urlparse(cleaned.s), 1))
    IN Cleaned(clean_url(url))

(***************************************************************************)
(* The batches: the entries of the input file, the pages their URLs        *)
(* serve and the answers of the LLM.                                       *)
(***************************************************************************)

\* the most entries in an input file whose items each meet every outcome
MaxItems == 2
\* the entries of the long input files, whose items each meet one outcome
MaxBatch == 21

ItemNames == <<"Market A", "Market B", "Market C">>
ItemUrls == <<"https://a.org/vendors", "https://b.org/vendors", "https://c.org/vendors">>

\* the items between two intermediate saves of process_vendor_pages and of
\* process_all_markets
CheckpointInterval == 10

\* the host of the long files: its server is down, but for the vendor page of
\* the stall at which the first intermediate save is due
SteadyHost == "steady.org"

\* the long file of vendor page discovery results: entry i is the market of
\* stall i of the steady host
LongPageFile ==
    [i \in 1..MaxBatch |-> [market_name |-> "Market " \o Str(i),
                            vendor_page_url |-> "https://" \o SteadyHost \o "/vendors/" \o Str(i),
                            vendor_page_found |-> TRUE]]

\* the vendor page discovery results process_vendor_pages loads: entry i is
\* market i, with or without a vendor page
PageFiles ==
    UNION {{[i \in 1..n |-> [market_name |-> ItemNames[i],
                              vendor_page_url |-> ItemUrls[i],
                              vendor_page_found |-> found[i]]] :
                found \in [1..n -> BOOLEAN]} : n \in 0..MaxItems}
    \cup {LongPageFile}

\* a line of page text, line break included, and what a long page ends with
TextLine ==
    "Green Acre Farm grows vegetables, herbs and cut flowers for the Saturday market all season long.  \n"
LastLine(n) == Repeat("x", n)

\* what a line adds to the cleaned text: the line without the blanks and the line
\* break at its end, and a joining space
LineGain == Len(TextLine) - 2

\* the lines before the last one of a long page
FullLines == ContentLimit \div LineGain - 1

\* a page text whose clean-up is over characters longer than ContentLimit (shorter
\* when over is negative)
LongText(over) ==
    Repeat(TextLine, FullLines) \o LastLine(ContentLimit - FullLines * LineGain + over)

\* the pages a vendor page URL may serve
ClaudePages ==
    {[status |-> "exception", text |-> "", scripts |-> <<>>],
     [status |-> "http_error", text |-> "", scripts |-> <<>>],
     [status |-> "ok", text |-> " \n\n ", scripts |-> <<>>],
     [status |-> "ok", text |-> "Our vendors\n  Apple Farm   Birch Bakery \n",
      scripts |-> <<"var vendors = 2;", "">>],
     [status |-> "ok", text |-> LongText(0), scripts |-> <<>>],
     [status |-> "ok", text |-> LongText(1), scripts |-> <<>>],
     [status |-> "ok", text |-> LongText(0 - 1), scripts |-> <<"Cedar Kitchen">>]}

\* the pages the vendor page URL of an entry may serve
ServedAt(url) ==
    IF urlparse(url).netloc # SteadyHost THEN ClaudePages
    ELSE IF url = LongPageFile[CheckpointInterval].vendor_page_url
    THEN {[status |-> "exception", text |-> "", scripts |-> <<>>],
          [status |-> "ok", text |-> "Our vendors\n  Apple Farm   Birch Bakery \n",
           scripts |-> <<"var vendors = 2;", "">>]}
    ELSE {[status |-> "exception", text |-> "", scripts |-> <<>>]}

\* what _fetch_page_content returns for every page, computed once
PageContent == [page \in ClaudePages |-> fetch_page_content(page)]

\* the answers of the LLM that the batches are run on
BatchResponses ==
    {"[]", "[{\"name\": \"Apple Farm\", \"business_type\": \"farm\"}]",
     "[{\"name\": null}]"}

\* what _extract_with_claude returns to process_vendor_pages for every outcome
\* of the API call, computed once
ClaudeVendors ==
    [api_ok \in BOOLEAN, text \in BatchResponses, frames \in PagesFrames |->
        extract_with_claude(api_ok, text, frames)]

\* what LLMVendorExtractor.extract_vendors_from_content returns to
\* extract_from_candidates for every outcome of the API call, computed once
LLMResults ==
    [api_error \in ApiOutcomes, text \in BatchResponses, frames \in CandidateLoopFrames |->
        LLM_extract_vendors_from_content(api_error, text, frames)]

\* the rows of the CSV files process_all_markets loads: a bare host, a URL with
\* blanks around it, a comment, an empty row
CsvRows == {"a.org", " https://b.org/market ", "# c.org", ""}

\* the long CSV file: row i is a sub-domain of the steady host
LongCsvFile == [i \in 1..MaxBatch |-> "m" \o Str(i) \o "." \o SteadyHost]

CsvFiles == UNION {[1..n -> CsvRows] : n \in 0..MaxItems} \cup {<<"# markets">> \o LongCsvFile}

\* the candidate pages extract_from_candidates loads (detection_score is only
\* printed)
CandidateFiles ==
    {[i \in 1..n |-> [market_name |-> ItemNames[i], page_url |-> ItemUrls[i],
                      content_sample |-> "Our vendors Apple Farm Birch Bakery"]] :
        n \in 0..MaxItems}

MarketPage(url, status, text, links, tables, lists) ==
    [url |-> url, status |-> status, text |-> text, links |-> links,
     tables |-> tables, lists |-> lists]

\* the main page of a.org: a vendor named in the text and in a list, links to the
\* vendor page (twice), to a page that is not served, and to a file of another site
MainA ==
    MarketPage("https://a.org", "ok",
        "Saturday market\nSmith Family Farm brings fresh eggs from Union, NJ.\nFarmers\nOur Vendors\nVendor list\nVendors wanted\n",
        <<[text |-> "Farmers", href |-> "/farmers"],
          [text |-> " Our Vendors ", href |-> "/vendors"],
          [text |-> "Vendor list", href |-> "https://a.org/vendors"],
          [text |-> "Vendors wanted", href |-> "https://smithfarm.com/apply.pdf"]>>,
        <<>>, <<<<"Smith Family Farm", "Eggs">>>>)

\* the vendor page of a.org: the vendor of the main page again, in the text, in a
\* list and in a table, and two more
VendorsA ==
    MarketPage("https://a.org/vendors", "ok",
        "Our vendors: Birch Bakery bakes bread; Smith Family Farm, call 609-555-1234.\nStall 4 Cedar Kitchen\n",
        <<>>,
        <<[text |-> "Vendor Stall\nCedar Kitchen 4\n", rows |-> <<"Vendor Stall", "Cedar Kitchen 4">>]>>,
        <<<<"Birch Bakery", "Smith Family Farm">>>>)

\* the main page of b.org/market: no links, no vendors
MainB ==
    MarketPage("https://b.org/market", "ok", "Opening soon.\n", <<>>, <<>>, <<>>)

\* the main page of b.org/market with a link on whose href urljoin raises
\* ValueError
MainBroken ==
    [MainB EXCEPT !.links = <<[text |-> "Growers", href |-> "//[b.org/growers"]>>]

Failed(page, status) == [page EXCEPT !.status = status]

\* the pages served
MarketPages == {MainA, VendorsA, MainB, MainBroken}

\* the URLs of the markets of the long CSV file
SteadyMarketUrls == {"https://" \o LongCsvFile[i] : i \in 1..MaxBatch}

\* what each URL of the CSV rows may serve: a site is its main page and the pages
\* behind its links (/farmers is never served; the steady host does not answer)
MarketSites ==
    [u \in {"https://a.org", "https://b.org/market"} \cup SteadyMarketUrls |->
        IF u = "https://a.org"
        THEN {[main |-> MainA, pages |-> <<VendorsA>>],
              [main |-> MainA, pages |-> <<Failed(VendorsA, "exception")>>],
              [main |-> Failed(MainA, "exception"), pages |-> <<VendorsA>>],
              [main |-> Failed(MainA, "http_error"), pages |-> <<VendorsA>>]}
        ELSE IF u = "https://b.org/market"
        THEN {[main |-> MainB, pages |-> <<>>],
              [main |-> MainBroken, pages |-> <<>>],
              [main |-> Failed(MainB, "http_error"), pages |-> <<>>]}
        ELSE {[main |-> MarketPage(u, "exception", "", <<>>, <<>>, <<>>), pages |-> <<>>]}]

\* extract_vendors_from_page on every page served, for every order in which its
\* for loop may iterate vendor_names, computed once
MarketExtraction ==
    [page \in MarketPages |->
        [names \in Orders(page_vendor_names(page.text)) |->
            Comprehensive_extract_vendors_from_page(page, page.url, names)]]

\* no batch is modelled
BatchIdle ==
    /\ batch = "pages" /\ entries = <<>> /\ results = <<>> /\ events = <<>>
    /\ saved = <<>> /\ bpc = "idle"

\* the vendor records is_likely_vendor is called on
FilterNames ==
    {"Skip to content", "Smith Family Farm", "Site Design by Acme", "© 2024 Hill Farm",
     "SKIP TO CONTENT", "Al", "", "Bo's", "Joe", "Old Mill", "Farmers Cheese",
     "Fresh Bread", "Hill Ranch",
     "Green Valley Heritage Orchard and Cider Mill Store",
     "Green Valley Heritage Orchard and Cider Mill Stores",
     "Copyright Farm Bakery", "Anna's Pies", "Organic Cotton Tees", "Kitchen-Garden",
     "farm", "Le Ann'S", "Menu Closet",
     "Site design by The Hill Farm", "THICGet one of our limited edition prints",
     "The Al", "A  Bo's ", "ProduceHill Farm", "Herbs", "Pet ItemsThe Old Mill",
     "AquaSprout Farms", "McDonaldFamilyFarmAndOrchardOfGreenValleyNewJersey",
     "The The Farm", "a Farm", "Produce Herbs"}

FilterTypes == {None, JStr("farm"), JStr("Farm"), JStr("orchard"), JStr("unknown")}

FilterRecords == [name : FilterNames, type : FilterTypes]

FilterIdle ==
    /\ vendor = [name |-> "", type |-> None] /\ likely = FALSE /\ clean_name = ""
    /\ apc = "idle"

\* the URL cells scrape_site is called on, and the answers to its fetch
ScrapeUrls ==
    {None} \cup
    {JStr(url) : url \in
        {"", "  ", "facebook.com", " facebook.com ", "or facebook.com",
         "https://facebook.com", "http://facebook.com", "facebook.com/ourmarket",
         "www.facebook.com", "www.a.org", "a.org/market", "http://b.org",
         " https://c.gov/market ", "HTTP://d.org", "chamber.org"}}

ScrapeNames == {"Market A", "Market B"}

Answer(status, title, text, hrefs) ==
    [status |-> status, content_length |-> JNum("512"), title |-> title,
     text |-> text, hrefs |-> hrefs]

Responses ==
    {Answer("exception", None, "", <<>>),
     Answer("404", None, "Not found", <<>>),
     Answer("500", JStr("Error"), "", <<>>),
     Answer("200", JStr(" Our Market \n"),
            "Our Market\n  Vendors   every  Saturday \n\nContact",
            <<"https://other.org/x", "/vendors", "contact.html", "mailto:a@b.org",
              "http://b.org/", "/">>),
     Answer("200", None, "", <<>>),
     Answer("200", JStr("Our Market"), "Our Market", <<"/vendors", "//[b.org/vendors">>)}

ScrapeIdle ==
    /\ scrape_name = "" /\ scrape_url = None /\ cleaned_url = None
    /\ scraped = NoSite /\ fetched = <<>> /\ spc = "idle"

OtherIdle == BatchIdle /\ FilterIdle /\ ScrapeIdle

(***************************************************************************)
(* The parsers as a state machine: a response arrives, one parser is run   *)
(* on it.                                                                  *)
(***************************************************************************)

InitParser ==
    /\ shape \in Shapes
    /\ response_text = RenderResponse(shape)
    /\ parser = "none"
    /\ result = NoResult
    /\ raised = FALSE
    /\ ScorerIdle
    /\ CrawlIdle
    /\ OtherIdle

\* result = improved_json_parser(response_text)
Call_improved_json_parser ==
    /\ parser = "none"
    /\ parser' = "improved_json_parser"
    /\ result' = [NoResult EXCEPT !.value = improved_json_parser(response_text)]
    /\ raised' = FALSE
    /\ UNCHANGED <<shape, response_text, scorerVars, crawlVars, otherVars>>

\* result = debug_parse_json_response(response_text)
Call_debug_parse_json_response ==
    /\ parser = "none"
    /\ parser' = "debug_parse_json_response"
    /\ result' = [NoResult EXCEPT !.value = debug_parse_json_response(response_text)]
    /\ raised' = FALSE
    /\ UNCHANGED <<shape, response_text, scorerVars, crawlVars, otherVars>>

\* vendors = self._extract_with_claude(...) at one of the depths it is called
\* at, the API call answering response_text or raising
Call_extract_with_claude ==
    /\ parser = "none"
    /\ \E api_ok \in BOOLEAN, frames \in ClaudeFrames :
        /\ parser' = IF api_ok THEN "_extract_with_claude" ELSE "_extract_with_claude_api_error"
        /\ result' = [NoResult EXCEPT
                         !.vendors = extract_with_claude(api_ok, response_text, frames)]
    /\ raised' = FALSE
    /\ UNCHANGED <<shape, response_text, scorerVars, crawlVars, otherVars>>

\* result = self.extractor.extract_vendors_from_content(...) of test_single_market
\* (integrated_vendor_extraction.py:129), the API call answering response_text or
\* raising; the calls of extract_from_candidates are those of ProcessCandidate
Call_LLM_extract_vendors_from_content ==
    /\ parser = "none"
    /\ \E api_error \in ApiOutcomes :
        /\ parser' = IF api_error = NoApiError THEN "extract_vendors_from_content"
                     ELSE "extract_vendors_from_content_api_error"
        /\ LET Returned(r) == [value |-> None, vendors |-> r.vendors,
                               extraction_success |-> r.extraction_success,
                               error_message |-> r.error_message]
           IN result' = Returned(LLM_extract_vendors_from_content(api_error, response_text,
                                                                  SingleMarketFrames))
    /\ raised' = FALSE
    /\ UNCHANGED <<shape, response_text, scorerVars, crawlVars, otherVars>>

\* what _fetch_page_content may return to extract_vendors_from_page: None, an
\* empty text, a text
FetchedContents ==
    {NoContent, [none |-> FALSE, text |-> ""],
     [none |-> FALSE, text |-> "Our vendors Apple Farm Birch Bakery"]}

\* result = extractor.extract_vendors_from_page(market_name, args.test_url) of
\* main (claude_vendor_extractor.py:297), the fetch returning page_content and
\* the API call answering response_text or raising; the calls of a batch are
\* those of ProcessPage
Call_extract_vendors_from_page ==
    /\ parser = "none"
    /\ \E page_content \in FetchedContents, api_ok \in BOOLEAN :
        /\ parser' = "extract_vendors_from_page"
        /\ LET Returned(r) == [value |-> None, vendors |-> r.vendors,
                               extraction_success |-> r.extraction_success,
                               error_message |-> r.error_message]
           IN result' = Returned(extract_vendors_from_page(
                                     "Market A", "https://a.org/vendors", page_content,
                                     extract_with_claude(api_ok, response_text,
                                                         TestUrlFrames)))
    /\ raised' = FALSE
    /\ UNCHANGED <<shape, response_text, scorerVars, crawlVars, otherVars>>

NextParser ==
    \/ Call_improved_json_parser
    \/ Call_debug_parse_json_response
    \/ Call_extract_with_claude
    \/ Call_LLM_extract_vendors_from_content
    \/ Call_extract_vendors_from_page

SpecParser == InitParser /\ [][NextParser]_vars

(***************************************************************************)
(* The scorers as a state machine: a link or a page text arrives, one      *)
(* scorer is run on it.                                                    *)
(***************************************************************************)

\* no parser is running
ParserIdle ==
    /\ shape = [kind |-> "empty", objs |-> <<>>, comma |-> FALSE, wrap |-> "bare", text |-> ""]
    /\ response_text = "" /\ parser = "none" /\ result = NoResult /\ raised = FALSE

InitScorer ==
    /\ \/ in_link_text \in LinkTexts /\ in_link_url \in LinkUrls /\ in_content = ""
       \/ in_link_text = "" /\ in_link_url = "" /\ in_content \in ContentTexts
    /\ scorer = "none"
    /\ scored = NoScore
    /\ ParserIdle
    /\ CrawlIdle
    /\ OtherIdle

\* link_score, link_reasons = self.score_link_for_vendors(link_text, full_url)
Call_score_link_for_vendors ==
    /\ scorer = "none" /\ in_link_url # ""
    /\ scorer' = "score_link_for_vendors"
    /\ LET Returned(r) ==
               [NoScore EXCEPT !.exc = r.exc, !.score = r.score, !.reasons = r.reasons]
       IN scored' = Returned(score_link_for_vendors(in_link_text, in_link_url))
    /\ UNCHANGED <<in_link_text, in_link_url, in_content, parserVars, crawlVars, otherVars>>

\* score = self.is_vendor_related_link(link_text, full_url)
Call_is_vendor_related_link ==
    /\ scorer = "none" /\ in_link_url # ""
    /\ scorer' = "is_vendor_related_link"
    /\ LET Returned(r) == [NoScore EXCEPT !.exc = r.exc, !.score = r.score]
       IN scored' = Returned(is_vendor_related_link(in_link_text, in_link_url))
    /\ UNCHANGED <<in_link_text, in_link_url, in_content, parserVars, crawlVars, otherVars>>

\* content_score, content_reasons = self.analyze_content_for_vendors(content)
Call_analyze_content_for_vendors ==
    /\ scorer = "none" /\ in_link_url = ""
    /\ scorer' = "analyze_content_for_vendors"
    /\ LET Returned(r) == [NoScore EXCEPT !.score = r.score, !.reasons = r.reasons]
       IN scored' = Returned(analyze_content_for_vendors(in_content))
    /\ UNCHANGED <<in_link_text, in_link_url, in_content, parserVars, crawlVars, otherVars>>

\* vendors = self.extract_vendors_from_content(content, current_url)
\* confidence = self.calculate_vendor_page_confidence(content, vendors)
Call_calculate_vendor_page_confidence ==
    /\ scorer = "none" /\ in_link_url = ""
    /\ scorer' = "calculate_vendor_page_confidence"
    /\ LET Returned(vendors) ==
               [NoScore EXCEPT
                   !.score = calculate_vendor_page_confidence(in_content, vendors),
                   !.vendors = vendors]
       IN scored' = Returned(extract_vendors_from_content(in_content, ScoredPageUrl))
    /\ UNCHANGED <<in_link_text, in_link_url, in_content, parserVars, crawlVars, otherVars>>

NextScorer ==
    \/ Call_score_link_for_vendors
    \/ Call_is_vendor_related_link
    \/ Call_analyze_content_for_vendors
    \/ Call_calculate_vendor_page_confidence

SpecScorer == InitScorer /\ [][NextScorer]_vars

(***************************************************************************)
(* The per-site crawl as a state machine: one crawler object, one site.    *)
(* A step is a call of the crawl method, one pass of its while loop, or    *)
(* its return.                                                             *)
(***************************************************************************)

InitCrawl ==
    /\ variant \in Variants
    /\ max_depth \in 1..MaxDepth
    /\ site \in Sites
    /\ visited_urls = {}
    /\ to_visit = <<>>
    /\ candidates = <<>>
    /\ pc = "idle"
    /\ crawls = 0
    /\ fetch_log = <<>>
    /\ ParserIdle
    /\ ScorerIdle
    /\ OtherIdle

Fetched(url, outcome) == [event |-> "fetch", url |-> url, outcome |-> outcome]
Slept == [event |-> "sleep", url |-> "", outcome |-> ""]

Quota == IF variant = "finder" THEN FinderQuota ELSE CrawlerQuota

\* the number of fetches logged that did not end in a 200
Failures == Cardinality({i \in 1..Len(fetch_log) :
                            fetch_log[i].event = "fetch" /\ fetch_log[i].outcome # "200"})

\* find_vendor_page_candidates(market_name, base_url) / crawl_for_vendors(...) is
\* called on the object as it is: candidates = [], to_visit = [(base_url, 0)]
CallCrawl ==
    /\ pc \in {"idle", "returned"}
    /\ crawls < MaxCrawls
    /\ pc' = "crawling"
    /\ crawls' = crawls + 1
    /\ candidates' = <<>>
    /\ to_visit' = <<<<BaseUrl, 0>>>>
    /\ fetch_log' = <<>>
    /\ UNCHANGED <<variant, max_depth, site, visited_urls, parserVars, scorerVars, otherVars>>

\* the batch drivers (find_candidates_from_results, crawl_from_successful_sites):
\* self.visited_urls.clear(), then the crawl is called
CallCrawlFromBatch ==
    /\ pc \in {"idle", "returned"}
    /\ crawls < MaxCrawls
    /\ visited_urls' = {}
    /\ pc' = "crawling"
    /\ crawls' = crawls + 1
    /\ candidates' = <<>>
    /\ to_visit' = <<<<BaseUrl, 0>>>>
    /\ fetch_log' = <<>>
    /\ UNCHANGED <<variant, max_depth, site, parserVars, scorerVars, otherVars>>

\* while to_visit and len(candidates) < quota
LoopRuns == pc = "crawling" /\ to_visit # <<>> /\ Len(candidates) < Quota

current_url == to_visit[1][1]
depth == to_visit[1][2]

\* such a pass as it would be if the URL popped were added to visited_urls
SkipUrl_visited ==
    /\ LoopRuns
    /\ current_url \in visited_urls \/ depth >= max_depth
    /\ to_visit' = Tail(to_visit)
    /\ visited_urls' = visited_urls \cup {current_url}
    /\ UNCHANGED <<variant, max_depth, site, candidates, pc, crawls,
                   fetch_log, parserVars, scorerVars, otherVars>>

\* a pass that pops a URL already visited or too deep: continue
SkipUrl ==
    /\ LoopRuns
    /\ current_url \in visited_urls \/ depth >= max_depth
    /\ to_visit' = Tail(to_visit)
    /\ UNCHANGED <<variant, max_depth, site, visited_urls, candidates, pc, crawls,
                   fetch_log, parserVars, scorerVars, otherVars>>

\* a pass whose session.get raises: the except clause prints and continues
FetchRaises ==
    /\ LoopRuns
    /\ current_url \notin visited_urls /\ depth < max_depth
    /\ Failures < MaxFailures
    /\ visited_urls' = visited_urls \cup {current_url}
    /\ to_visit' = Tail(to_visit)
    /\ fetch_log' = Append(fetch_log, Fetched(current_url, "exception"))
    /\ UNCHANGED <<variant, max_depth, site, candidates, pc, crawls, parserVars, scorerVars, otherVars>>

\* such a pass as it would be if the URL were added to visited_urls only after a
\* response with status 200
FetchNot200_unvisited ==
    /\ LoopRuns
    /\ current_url \notin visited_urls /\ depth < max_depth
    /\ Failures < MaxFailures
    /\ to_visit' = Tail(to_visit)
    /\ fetch_log' = Append(fetch_log, Fetched(current_url, "not 200"))
    /\ UNCHANGED <<variant, max_depth, site, visited_urls, candidates, pc, crawls,
                   parserVars, scorerVars, otherVars>>

\* a pass whose response has a status other than 200: continue
FetchNot200 ==
    /\ LoopRuns
    /\ current_url \notin visited_urls /\ depth < max_depth
    /\ Failures < MaxFailures
    /\ visited_urls' = visited_urls \cup {current_url}
    /\ to_visit' = Tail(to_visit)
    /\ fetch_log' = Append(fetch_log, Fetched(current_url, "not 200"))
    /\ UNCHANGED <<variant, max_depth, site, candidates, pc, crawls, parserVars, scorerVars, otherVars>>

\* the finder's candidates if every page analysed were appended
FinderCandidates_all(url, content_score) ==
    Append(candidates, [page_url |-> url, score |-> content_score, vendors |-> <<>>])

\* the finder's candidates after a page was analysed: a page with
\* content_score >= 0.3 is appended
FinderCandidates(url, content_score) ==
    IF FloatLeq(F_0_3, content_score)
    THEN Append(candidates, [page_url |-> url, score |-> content_score, vendors |-> <<>>])
    ELSE candidates

\* the crawler's candidates after a page was analysed: a page with vendors and
\* confidence > 0.3 is appended
CrawlerCandidates(url, page) ==
    IF page.vendors # <<>> /\ FloatLess(F_0_3, page.confidence)
    THEN Append(candidates, [page_url |-> url, score |-> page.confidence,
                             vendors |-> page.vendors])
    ELSE candidates

\* the candidates after the page at url, with the given text, was analysed
WithPage(url, text) ==
    IF variant = "finder" THEN FinderCandidates(url, FinderAnalysis[text])
    ELSE CrawlerCandidates(url, CrawlerAnalysis[text])

\* the loop over the links of the page popped raises: the page is at depth 0 and
\* urljoin or urlparse raises ValueError on the href of one of its links
LinkLoopRaises == depth = 0 /\ TopVendorLinks[variant, site.links].exc # ""

\* what the loop over the links of the page popped gives: nothing below the root
LinksFound ==
    IF depth = 0 THEN TopVendorLinks[variant, site.links] ELSE VendorLinks("", <<>>)

\* a pass whose response has status 200 and whose loop over the links raises: the
\* page was analysed before, the except clause prints and continues, so that no
\* link is queued and the loop does not sleep
Fetch200LinksRaise ==
    /\ LoopRuns
    /\ current_url \notin visited_urls /\ depth < max_depth
    /\ LinksFound.exc # ""
    /\ visited_urls' = visited_urls \cup {current_url}
    /\ candidates' = WithPage(current_url, PageTextOf(site, current_url))
    /\ to_visit' = Tail(to_visit)
    /\ fetch_log' = Append(fetch_log, Fetched(current_url, "200"))
    /\ UNCHANGED <<variant, max_depth, site, pc, crawls, parserVars, scorerVars, otherVars>>

\* a pass whose response has status 200: the page is analysed, the links of the
\* root page are queued, and the loop sleeps self.delay
Fetch200 ==
    /\ LoopRuns
    /\ current_url \notin visited_urls /\ depth < max_depth
    /\ visited_urls' = visited_urls \cup {current_url}
    /\ candidates' = WithPage(current_url, PageTextOf(site, current_url))
    /\ LET Queued(found) ==
            /\ found.exc = ""
            /\ to_visit' = Enqueue(Tail(to_visit), found.links, visited_urls', depth, 1)
       IN Queued(LinksFound)
    /\ fetch_log' = fetch_log \o <<Fetched(current_url, "200"), Slept>>
    /\ UNCHANGED <<variant, max_depth, site, pc, crawls, parserVars, scorerVars, otherVars>>

\* such a return as it would be if the loop ended only when the quota is reached
ReturnCandidates_atQuota ==
    /\ pc = "crawling"
    /\ Len(candidates) >= Quota
    /\ pc' = "returned"
    /\ UNCHANGED <<variant, max_depth, site, visited_urls, to_visit, candidates, crawls,
                   fetch_log, parserVars, scorerVars, otherVars>>

\* the loop condition fails: return candidates
ReturnCandidates ==
    /\ pc = "crawling"
    /\ ~LoopRuns
    /\ pc' = "returned"
    /\ UNCHANGED <<variant, max_depth, site, visited_urls, to_visit, candidates, crawls,
                   fetch_log, parserVars, scorerVars, otherVars>>

NextCrawl ==
    \/ CallCrawl
    \/ CallCrawlFromBatch
    \/ SkipUrl
    \/ FetchRaises
    \/ FetchNot200
    \/ Fetch200
    \/ Fetch200LinksRaise
    \/ ReturnCandidates

SpecCrawl == InitCrawl /\ [][NextCrawl]_vars

\* one pass of the while loop, whatever its fetch does
LoopPass == SkipUrl \/ FetchRaises \/ FetchNot200 \/ Fetch200 \/ Fetch200LinksRaise

\* The crawl is one sequential loop: session.get has timeout=10 and time.sleep
\* returns, so a pass that has begun ends and the next statement is executed.
\* Nothing makes a caller call the crawl again.
SpecCrawlLive == SpecCrawl /\ WF_vars(LoopPass \/ ReturnCandidates)

(***************************************************************************)
(* The batches as a state machine.  A step is the start of the batch       *)
(* (the input file is loaded), one pass of its loop (one page, or one      *)
(* market, or one candidate, is processed from its first fetch to its      *)
(* result record and to the intermediate save, if one is due), or the      *)
(* final save and the return.  A file written is held as the document      *)
(* json.dump was given; the rate limiting sleep changes nothing that is    *)
(* modelled.                                                               *)
(***************************************************************************)

InitBatch ==
    /\ \/ batch = "pages" /\ entries \in PageFiles
       \/ batch = "markets" /\ entries \in CsvFiles
       \/ batch = "candidates" /\ entries \in CandidateFiles
    /\ results = <<>>
    /\ events = <<>>
    /\ saved = <<>>
    /\ bpc = "idle"
    /\ ParserIdle
    /\ ScorerIdle
    /\ CrawlIdle
    /\ FilterIdle
    /\ ScrapeIdle

\* valid_pages: the entries where a vendor page was found
valid_pages ==
    LET Found(page_data) == page_data.vendor_page_found
    IN SelectSeq(entries, Found)

\* markets: the rows of the CSV file that are neither comments nor empty
\* (start_from and max_markets have their defaults)
markets == LoadMarkets(entries, 1)

\* process_vendor_pages, process_all_markets or extract_from_candidates is
\* called: the file is loaded, results = []
StartBatch ==
    /\ bpc = "idle"
    /\ bpc' = "running"
    /\ results' = <<>>
    /\ events' = <<>>
    /\ UNCHANGED <<batch, entries, saved, parserVars, scorerVars, crawlVars, filterVars, scrapeVars>>

\* with open(filename, 'w') as f: json.dump(document, f)
Written(filename, document) == (filename :> document) @@ saved

\* f"{stem}_{i-9}_to_{i}.json"
BatchFileName(stem, i) ==
    stem \o "_" \o Str(i - (CheckpointInterval - 1)) \o "_to_" \o Str(i) \o ".json"

\* the files after pass i of process_vendor_pages, results_ being the results
\* with that of pass i: if i % 10 == 0: self._save_results(results, ...)
PageCheckpoint(i, results_) ==
    IF i % CheckpointInterval = 0
    THEN Written(BatchFileName("claude_extraction_batch", i), results_)
    ELSE saved

\* all_results[-10:]
LastResults(all_results) ==
    IF Len(all_results) <= CheckpointInterval THEN all_results
    ELSE SubSeq(all_results, Len(all_results) - CheckpointInterval + 1, Len(all_results))

\* the files after pass i of process_all_markets (start_from has its default 0):
\* if i % 10 == 0: json.dump(all_results[-10:], ...)
MarketCheckpoint(i, all_results) ==
    IF i % CheckpointInterval = 0
    THEN Written(BatchFileName("vendors_batch", i), LastResults(all_results))
    ELSE saved

\* final_results of process_all_markets (the processing time and the success
\* rate, a quotient of two of the counts, are not modelled)
FinalResults(markets_, all_results) ==
    LET successful == {i \in 1..Len(all_results) :
                          all_results[i].error = None \/ all_results[i].error = JStr("")}
        RECURSIVE Vendors(_)
        Vendors(i) ==
            IF i = 0 THEN 0
            ELSE Vendors(i - 1)
                 + (IF i \in successful THEN Len(all_results[i].vendors) ELSE 0)
    IN [summary |-> [total_markets |-> Len(markets_),
                     successful_markets |-> Cardinality(successful),
                     total_vendors |-> Vendors(Len(all_results)),
                     start_index |-> 0],
        results |-> all_results]

\* ', '.join([v.name for v in result.vendors[:3]]) raises TypeError: one of the
\* first three vendors has a name that is no str
JoinNamesRaises(vendors_) ==
    \E k \in 1..Len(vendors_) : k <= 3 /\ vendors_[k].name.t # "str"

\* the print of the vendors found raises in the pass that appended result_
PrintFoundRaises(result_) ==
    result_.extraction_success /\ result_.vendors # <<>> /\ JoinNamesRaises(result_.vendors)

\* one pass of the loop of process_vendor_pages: the page is fetched, the LLM is
\* called on its content unless the fetch gave none, and the result is appended;
\* if the print of the vendors found raises, the TypeError leaves
\* process_vendor_pages before the intermediate save
ProcessPage ==
    /\ bpc = "running" /\ batch = "pages"
    /\ Len(results) < Len(valid_pages)
    /\ \E page \in ServedAt(valid_pages[Len(results) + 1].vendor_page_url),
          api_ok \in BOOLEAN, text \in BatchResponses, frames \in PagesFrames :
          LET page_data == valid_pages[Len(results) + 1]
              called == ~PageContent[page].none /\ PageContent[page].text # ""
          IN /\ results' = Append(results,
                     extract_vendors_from_page(page_data.market_name,
                                               page_data.vendor_page_url,
                                               PageContent[page],
                                               ClaudeVendors[api_ok, text, frames]))
             /\ events' = Append(events,
                     [page |-> page, fetch |-> page.status,
                      content |-> IF called THEN PageContent[page].text ELSE "",
                      api |-> IF ~called THEN "none" ELSE IF api_ok THEN "ok" ELSE "error",
                      raw |-> <<>>])
    /\ bpc' = IF PrintFoundRaises(results'[Len(results')]) THEN "raised" ELSE bpc
    /\ saved' = IF PrintFoundRaises(results'[Len(results')]) THEN saved
                ELSE PageCheckpoint(Len(results) + 1, results')
    /\ UNCHANGED <<batch, entries, parserVars, scorerVars, crawlVars, filterVars, scrapeVars>>

\* the pages of a site that are served, and the orders in which the for loop of
\* extract_vendors_from_page may iterate vendor_names on each of them
ServedPages(site_) ==
    {page \in {site_.main} \cup {site_.pages[i] : i \in 1..Len(site_.pages)} :
        page.status = "ok"}

SiteOrders(site_) ==
    LET Among(page_orders) ==
            {orders \in [ServedPages(site_) ->
                            UNION {page_orders[page] : page \in ServedPages(site_)}] :
                \A page \in ServedPages(site_) : orders[page] \in page_orders[page]}
    IN Among([page \in MarketPages |-> Orders(page_vendor_names(page.text))])

\* one pass of the loop of process_all_markets: process_market fetches the main
\* page and the pages behind its top links, and its result is appended
ProcessMarket ==
    /\ bpc = "running" /\ batch = "markets"
    /\ Len(results) < Len(markets)
    /\ \E site_ \in MarketSites[markets[Len(results) + 1].url] :
          \E orders \in SiteOrders(site_) :
             LET ByUrl(extraction) ==
                     [url \in {page.url : page \in ServedPages(site_)} |->
                         extraction[CHOOSE page \in ServedPages(site_) : page.url = url]]
                 Ordered(extraction) ==
                     ByUrl([page \in ServedPages(site_) |-> extraction[page][orders[page]]])
                 Processed(market) ==
                     /\ results' = Append(results, market.result)
                     /\ events' = Append(events,
                             [page |-> site_.main, fetch |-> site_.main.status,
                              content |-> "",
                              api |-> "none", raw |-> market.raw])
             IN Processed(process_market(markets[Len(results) + 1].name,
                                         markets[Len(results) + 1].url, site_,
                                         Ordered(MarketExtraction)))
    /\ saved' = MarketCheckpoint(Len(results) + 1, results')
    /\ UNCHANGED <<batch, entries, bpc, parserVars, scorerVars, crawlVars, filterVars, scrapeVars>>

\* VendorExtractionResult(...); processing_time is not modelled
VendorExtractionResult(market_name, page_url, returned) ==
    [market_name |-> market_name, page_url |-> page_url, vendors |-> returned.vendors,
     extraction_success |-> returned.extraction_success,
     error_message |-> returned.error_message]

\* one pass of the loop of extract_from_candidates: the LLM is called on the
\* content sample of the candidate, the result is appended and the results so
\* far are saved to output_file
ProcessCandidate ==
    /\ bpc = "running" /\ batch = "candidates"
    /\ Len(results) < Len(entries)
    /\ \E api_error \in ApiOutcomes, text \in BatchResponses, frames \in CandidateLoopFrames :
          LET candidate == entries[Len(results) + 1]
          IN /\ results' = Append(results,
                     VendorExtractionResult(candidate.market_name, candidate.page_url,
                                            LLMResults[api_error, text, frames]))
             /\ events' = Append(events,
                     [page |-> [status |-> "none", text |-> "", scripts |-> <<>>],
                      fetch |-> "none", content |-> candidate.content_sample,
                      api |-> IF api_error = NoApiError THEN "ok" ELSE "error",
                      raw |-> <<>>])
    /\ saved' = Written("llm_extracted_vendors.json", results')
    /\ UNCHANGED <<batch, entries, bpc, parserVars, scorerVars, crawlVars, filterVars, scrapeVars>>

\* the loop of process_vendor_pages is over: the results are saved and returned
FinishPages ==
    /\ bpc = "running" /\ batch = "pages"
    /\ Len(results) = Len(valid_pages)
    /\ bpc' = "done"
    /\ saved' = Written("claude_vendor_extraction.json", results)
    /\ UNCHANGED <<batch, entries, results, events, parserVars, scorerVars, crawlVars, filterVars, scrapeVars>>

\* the loop of process_all_markets is over: the summary is printed, the results
\* are saved and returned; without markets the success rate
\* successful_markets/len(markets) raises ZeroDivisionError
FinishMarkets ==
    /\ bpc = "running" /\ batch = "markets"
    /\ Len(results) = Len(markets)
    /\ bpc' = IF Len(markets) = 0 THEN "raised" ELSE "done"
    /\ saved' = IF Len(markets) = 0 THEN saved
                ELSE Written("comprehensive_vendors_0_" \o Str(Len(markets)) \o ".json",
                             FinalResults(markets, results))
    /\ UNCHANGED <<batch, entries, results, events, parserVars, scorerVars, crawlVars, filterVars, scrapeVars>>

\* the loop of extract_from_candidates is over: the results are returned
FinishCandidates ==
    /\ bpc = "running" /\ batch = "candidates"
    /\ Len(results) = Len(entries)
    /\ bpc' = "done"
    /\ UNCHANGED <<batch, entries, results, events, saved, parserVars, scorerVars, crawlVars, filterVars, scrapeVars>>

NextBatch ==
    \/ StartBatch
    \/ ProcessPage
    \/ ProcessMarket
    \/ ProcessCandidate
    \/ FinishPages
    \/ FinishMarkets
    \/ FinishCandidates

SpecBatch == InitBatch /\ [][NextBatch]_vars

(***************************************************************************)
(* The vendor filter as a state machine: one vendor record is cleaned and  *)
(* judged, as a pass of the inner loop of analyze_vendor_data does.        *)
(***************************************************************************)

InitFilter ==
    /\ vendor \in FilterRecords
    /\ likely = FALSE
    /\ clean_name = ""
    /\ apc = "idle"
    /\ ParserIdle
    /\ ScorerIdle
    /\ CrawlIdle
    /\ BatchIdle
    /\ ScrapeIdle

\* one pass of the inner loop of analyze_vendor_data up to its test:
\* clean_name = clean_vendor_name(vendor['name']), then is_likely_vendor(vendor)
\* (the key clean_name the pass adds to the record is read by nothing)
Call_is_likely_vendor ==
    /\ apc = "idle"
    /\ clean_name' = clean_vendor_name(vendor.name)
    /\ likely' = is_likely_vendor(vendor)
    /\ apc' = "called"
    /\ UNCHANGED <<vendor, parserVars, scorerVars, crawlVars, batchVars, scrapeVars>>

NextFilter == Call_is_likely_vendor

SpecFilter == InitFilter /\ [][NextFilter]_vars

(***************************************************************************)
(* The scraper as a state machine: scrape_site is called on a market name  *)
(* and a URL cell, and the site answers its fetch, if it makes one.        *)
(***************************************************************************)

InitScrape ==
    /\ scrape_name \in ScrapeNames
    /\ scrape_url \in ScrapeUrls
    /\ cleaned_url = None
    /\ scraped = NoSite
    /\ fetched = <<>>
    /\ spc = "idle"
    /\ ParserIdle
    /\ ScorerIdle
    /\ CrawlIdle
    /\ BatchIdle
    /\ FilterIdle

Call_scrape_site ==
    /\ spc = "idle"
    /\ \E response \in Responses :
          LET Returned(site_) ==
                  /\ scraped' = site_.site
                  /\ fetched' = site_.fetched
                  /\ spc' = IF site_.exc # "" THEN "raised" ELSE "done"
          IN Returned(scrape_site(scrape_name, scrape_url, response))
    /\ cleaned_url' = clean_url(scrape_url)
    /\ UNCHANGED <<scrape_name, scrape_url, parserVars, scorerVars, crawlVars, batchVars,
                   filterVars>>

NextScrape == Call_scrape_site

SpecScrape == InitScrape /\ [][NextScrape]_vars

(***************************************************************************)
(* Claims about the response parsers, checked under SpecParser.            *)
(***************************************************************************)

\* C2: improved_json_parser, debug_parse_json_response and the parse step of
\* _extract_with_claude return without raising on every response text, and on a
\* text without bracket, brace, code fence or name key they return the empty
\* sequence.
C2_ProseGivesEmptySequence ==
    /\ parser # "none" => ~raised
    /\ IsPlainProse(response_text) =>
        /\ parser \in {"improved_json_parser", "debug_parse_json_response"}
              => result.value = EmptyList
        /\ parser = "_extract_with_claude" => result.vendors = <<>>

\* C3: the value improved_json_parser returns is a sequence whose elements are
\* all objects.
C3_ReturnsSequenceOfObjects ==
    parser = "improved_json_parser" =>
        /\ IsList(result.value)
        /\ \A i \in 1..Len(result.value.items) : IsDict(result.value.items[i])

\* C4: an array with one trailing comma before its closing bracket parses to the
\* same records, in the same order, as the array without that comma.
C4_TrailingCommaSameAsWithout ==
    shape.kind = "array" /\ shape.comma /\ ~shape.objs[2].comma /\ shape.wrap = "bare" =>
        /\ parser = "improved_json_parser" =>
              result.value = improved_json_parser(RenderResponse([shape EXCEPT !.comma = FALSE]))
        /\ parser = "debug_parse_json_response" =>
              result.value
                = debug_parse_json_response(RenderResponse([shape EXCEPT !.comma = FALSE]))

\* C5: a well-formed vendor array wrapped in a fenced code block, with or without
\* a json tag, between leading and trailing prose gives the same parser result
\* as the bare array, nested products arrays included.
C5_FencedSameAsBare ==
    WellFormedArray(shape) /\ shape.wrap \in {"fence", "fence_json"} =>
        /\ parser = "improved_json_parser" =>
              result.value = improved_json_parser(RenderResponse([shape EXCEPT !.wrap = "bare"]))
        /\ parser = "debug_parse_json_response" =>
              result.value
                = debug_parse_json_response(RenderResponse([shape EXCEPT !.wrap = "bare"]))
        /\ parser = "extract_vendors_from_content" =>
              \A frames \in LLMFrames :
                  result.vendors
                    = LLM_extract_vendors_from_content(
                          NoApiError, RenderResponse([shape EXCEPT !.wrap = "bare"]),
                          frames).vendors

\* the fields of a Vendor are the members of the record it was built from
VendorKeepsFields(v, rec) ==
    /\ v.name = Get(rec, "name", None)
    /\ v.business_type = Get(rec, "business_type", None)
    /\ v.products = Get(rec, "products", None)
    /\ HasKey(rec, "confidence") => v.confidence = Get(rec, "confidence", None)

\* C6: when the whole response text is a well-formed array of n vendor objects,
\* each parser returns exactly those n records, in order, with their fields
\* unchanged.
C6_WholeArrayRoundTrip ==
    WellFormedArray(shape) /\ shape.wrap = "bare" =>
        /\ parser \in {"improved_json_parser", "debug_parse_json_response"} =>
              result.value = JArr(ExpectedRecords(shape))
        /\ parser = "_extract_with_claude" /\ AllNamed(shape) =>
              /\ Len(result.vendors) = Len(ExpectedRecords(shape))
              /\ \A i \in 1..Len(result.vendors) :
                    VendorKeepsFields(result.vendors[i], ExpectedRecords(shape)[i])

\* C9: every Vendor and ExtractedVendor built from a well-formed response has a
\* numeric confidence in [0, 1], and a confidence that is absent, null or not a
\* number never makes the page's extraction fail.
C9_ConfidenceNumericInUnitInterval ==
    WellFormedArray(shape) /\ AllNamed(shape) =>
        /\ parser = "_extract_with_claude" =>
              \A i \in 1..Len(result.vendors) :
                    NumericInUnitInterval(result.vendors[i].confidence)
        /\ parser = "extract_vendors_from_content" =>
              /\ result.extraction_success
              /\ \A i \in 1..Len(result.vendors) :
                    NumericInUnitInterval(result.vendors[i].confidence)

\* the names of the vendors of a result, in order
ResultNames == [i \in 1..Len(result.vendors) |-> result.vendors[i].name]

\* the names of the named records of an array shape, in order
NamedRecordNames(sh) ==
    LET Named(r) == HasName(r)
        named == SelectSeq(ExpectedRecords(sh), Named)
    IN [i \in 1..Len(named) |-> Get(named[i], "name", None)]

\* C13: a parsed record without a name field is dropped silently: the vendors
\* returned are those of the named records of the response, in order (so none
\* has an empty name), and the extraction of the page is reported as successful.
C13_NamelessRecordDropped ==
    WellFormedArray(shape) /\ shape.kind = "array" /\ ~AllNamed(shape) =>
        /\ parser = "_extract_with_claude" /\ shape.wrap = "bare" =>
              ResultNames = NamedRecordNames(shape)
        /\ parser = "extract_vendors_from_content" =>
              result.extraction_success /\ ResultNames = NamedRecordNames(shape)

(***************************************************************************)
(* Claims about the scorers (specification SpecScorer)                     *)
(***************************************************************************)

\* C7: for every page text, analyze_content_for_vendors returns a score in
\* [0, 1.0] and calculate_vendor_page_confidence returns a confidence in
\* [0, 1.0], however often the keywords and patterns are repeated: the sum of
\* the sub-scores is clamped to the ceiling and is never negative.
C7_ContentScoresInUnitInterval ==
    scorer \in {"analyze_content_for_vendors", "calculate_vendor_page_confidence"} =>
        /\ FloatLeq(F_0_0, scored.score)
        /\ FloatLeq(scored.score, F_1_0)

\* C7 happens: a page text whose sub-scores add up to more than 1.0 was analysed
\* and the score returned is the ceiling
C7_Witness ==
    /\ scorer = "analyze_content_for_vendors"
    /\ FloatLess(F_1_0, ContentScoreSum(in_content).score)
    /\ scored.score = F_1_0

HighKeywords == {high_priority[i] : i \in 1..Len(high_priority)}
LowKeywords == {low_priority[i] : i \in 1..Len(low_priority)}

\* the keywords of the rubric that the scorer finds in an anchor text
KeywordsIn(link_text) ==
    {k \in LinkWords \ {"contact"} : Contains(Strip(Lower(link_text)), k)}

\* C8 as claimed: for every link URL and every anchor text, an anchor text
\* containing a high priority keyword scores strictly more than the otherwise
\* identical anchor text with that keyword replaced by a low priority keyword,
\* also when the URL path matches keywords and the sum reaches the 1.0 ceiling.
C8_HighStrictlyOutscoresLow ==
    scorer = "score_link_for_vendors" =>
        \A p \in LinkPrefixes, h \in HighKeywords, x \in LinkSuffixes, l \in LowKeywords :
            in_link_text = p \o h \o x =>
                FloatLess(score_link_for_vendors(p \o l \o x, in_link_url).score,
                          scored.score)

\* C8 amended: when the anchor text with the low priority keyword contains no
\* keyword that the original lacks, apart from that low priority keyword, and no
\* longer contains the replaced high priority keyword, the original never scores
\* less; it scores strictly more whenever the replaced text scores below 1.0, and
\* both score exactly 1.0 otherwise.
C8_HighOutscoresLowBelowCeiling ==
    scorer = "score_link_for_vendors" =>
        \A p \in LinkPrefixes, h \in HighKeywords, x \in LinkSuffixes, l \in LowKeywords :
            /\ in_link_text = p \o h \o x
            /\ KeywordsIn(p \o l \o x) \subseteq (KeywordsIn(p \o h \o x) \ {h}) \cup {l}
            => LET low == score_link_for_vendors(p \o l \o x, in_link_url).score
               IN IF FloatLess(low, F_1_0)
                  THEN FloatLess(low, scored.score)
                  ELSE low = F_1_0 /\ scored.score = F_1_0

\* C8 happens: "Our vendors" linked to a URL whose path matches a keyword was
\* scored at the ceiling, and "Our artisans" with the same URL scores less
C8_Witness ==
    /\ scorer = "score_link_for_vendors"
    /\ in_link_text = "Our vendors"
    /\ scored.reasons # <<>>
    /\ urlparse(in_link_url).path = "/vendors"
    /\ scored.score = F_1_0
    /\ KeywordsIn("Our artisans") \subseteq (KeywordsIn("Our vendors") \ {"vendors"}) \cup {"artisans"}
    /\ FloatLess(score_link_for_vendors("Our artisans", in_link_url).score, F_1_0)

(***************************************************************************)
(* Claims about the per-site crawl (specification SpecCrawl)               *)
(***************************************************************************)

\* the URLs of the candidates
CandidateUrls == {candidates[i].page_url : i \in 1..Len(candidates)}

\* the root page was fetched with status 200 in the current crawl
RootFetched ==
    \E i \in 1..Len(fetch_log) : fetch_log[i] = Fetched(BaseUrl, "200")

\* C1: the list of candidates one site's crawl returns contains the site's root
\* page whatever the content score of the root page is, a score of 0 and a score
\* below the 0.3 threshold included.
C1_RootAlwaysCandidate ==
    pc = "returned" /\ variant = "finder" /\ RootFetched => BaseUrl \in CandidateUrls

\* C10: within one site's crawl a delay of self.delay elapses between any two
\* consecutive page fetches, whatever the outcome of the earlier one: between two
\* fetches of the log there is a sleep.
C10_DelayBetweenFetches ==
    \A i \in 1..(Len(fetch_log) - 1) :
        fetch_log[i].event = "fetch" => fetch_log[i + 1].event = "sleep"

\* every link of every root page as each crawl scores it, computed once: <<>>
\* when the link is filtered out or scores 0.2 or less
RootLinkEntries ==
    [v \in Variants, ls \in RootLinkLists |->
        [i \in 1..Len(ls) |->
            IF v = "finder" THEN FinderLink(FilterLink(ls[i], BaseUrl))
            ELSE CrawlerLink(FilterLink(ls[i], BaseUrl))]]

\* link i of the root page as the crawl scores it
LinkEntry(i) == RootLinkEntries[variant, site.links][i]

\* the links of the root page that are kept: none when the loop over the links
\* raises, which leaves it before any link is offered to the queue
KeptLinks ==
    IF TopVendorLinks[variant, site.links].exc # "" THEN {}
    ELSE {i \in 1..Len(site.links) : LinkEntry(i) # <<>>}

\* kept link i comes before kept link j: it scores more, or as much and it is
\* earlier on the page
Outranks(i, j) ==
    \/ FloatLess(LinkEntry(j)[1].score, LinkEntry(i)[1].score)
    \/ LinkEntry(j)[1].score = LinkEntry(i)[1].score /\ i < j

Rank(i) == Cardinality({j \in KeptLinks : Outranks(j, i)}) + 1

TopLinks == IF variant = "finder" THEN FinderTopLinks ELSE CrawlerTopLinks

\* the kept links that are offered to the queue
OfferedLinks == {i \in KeptLinks : Rank(i) <= TopLinks}

\* the URLs offered to the queue, by rank
OfferedUrls ==
    [k \in 1..Cardinality(OfferedLinks) |->
        LinkEntry(CHOOSE i \in OfferedLinks : Rank(i) = k)[1].url]

\* the queue entries of the offered URLs that are not in visited
QueueOf(urls, visited) ==
    LET Fresh(u) == u \notin visited
        fresh == SelectSeq(urls, Fresh)
    IN [k \in 1..Len(fresh) |-> <<fresh[k], 1>>]

\* the position of the fetch of url in the log, 0 if it was not fetched
FetchIndex(url) ==
    IF \E k \in 1..Len(fetch_log) : fetch_log[k].event = "fetch" /\ fetch_log[k].url = url
    THEN CHOOSE k \in 1..Len(fetch_log) :
             fetch_log[k].event = "fetch" /\ fetch_log[k].url = url
    ELSE 0

\* the pass that fetches the root page with status 200
RootPass == fetch_log = <<>> /\ fetch_log' # <<>> /\ fetch_log'[1] = Fetched(BaseUrl, "200")

\* a pass that fetches a page other than the root
LinkPass == fetch_log # <<>> /\ Len(fetch_log') > Len(fetch_log)

\* C18: the links of the root page are enqueued in descending order of link
\* score, links of equal score in the order they were found on the page, and the
\* queued pages are fetched in that order: the page fetched is the best ranked
\* offered link whose page has not been visited.
C18_EnqueuedByFallingScore ==
    [][/\ RootPass => to_visit' = QueueOf(OfferedUrls, visited_urls')
       /\ LinkPass =>
            \E i \in OfferedLinks :
                /\ LinkEntry(i)[1].url = fetch_log'[Len(fetch_log) + 1].url
                /\ \A j \in OfferedLinks :
                       LinkEntry(j)[1].url \notin visited_urls => ~Outranks(j, i)]_vars

\* a crawl has returned whose root page has "Contact Us" and a link that scores
\* less ahead of one that scores more and of two that score the same, and the
\* pages of the first two were fetched, the better one first
C18_Witness ==
    /\ pc = "returned"
    /\ site.links[1].text = "Contact Us"
    /\ \E i, j \in OfferedLinks :
          /\ i < j /\ Outranks(j, i)
          /\ site.links[j].text = "Our Vendors"
          /\ 0 < FetchIndex(LinkEntry(j)[1].url)
          /\ FetchIndex(LinkEntry(j)[1].url) < FetchIndex(LinkEntry(i)[1].url)
    /\ \E i, j \in OfferedLinks :
          i < j /\ LinkEntry(i)[1].score = LinkEntry(j)[1].score /\ Rank(i) < Rank(j)

\* C19: every invocation of find_vendor_page_candidates or crawl_for_vendors on
\* an instance starts with an empty visited set and with the root alone in the
\* frontier, whatever the instance crawled before.
C19_EachCrawlStartsFresh ==
    [][pc # "crawling" /\ pc' = "crawling" =>
           visited_urls' = {} /\ to_visit' = <<<<BaseUrl, 0>>>>]_vars

\* C20: within one site's crawl every URL is fetched at most once, the URLs whose
\* fetch raised or returned a status other than 200 and the URLs that several
\* links of the root page point to included.
C20_EachUrlFetchedOnce ==
    \A i, j \in 1..Len(fetch_log) :
        /\ fetch_log[i].event = "fetch"
        /\ fetch_log[j].event = "fetch"
        /\ fetch_log[i].url = fetch_log[j].url
        => i = j

\* a crawl has returned in which two links of the root page were queued for one
\* URL and the fetch of that URL did not return 200
C20_Witness ==
    /\ pc = "returned"
    /\ \E i, j \in OfferedLinks :
          /\ i # j
          /\ LinkEntry(i)[1].url = LinkEntry(j)[1].url
          /\ FetchIndex(LinkEntry(i)[1].url) > 0
          /\ fetch_log[FetchIndex(LinkEntry(i)[1].url)].outcome \in {"not 200", "exception"}

(***************************************************************************)
(* Claims about the batches, checked under SpecBatch.                      *)
(***************************************************************************)

\* the cleaned text of each page before the length limit is applied
UncutContent == [page \in ClaudePages |-> fetch_page_content_uncut(page)]

\* the passes of the loop of process_vendor_pages in which the LLM was called
LlmCalls == {i \in 1..Len(events) : batch = "pages" /\ events[i].api # "none"}

\* C12: when the API call for a page raises, the result record of that page has
\* extraction_success false and an error_message that is not null.
C12_ApiFailureFlagged ==
    \A i \in LlmCalls :
        events[i].api = "error" =>
            /\ ~results[i].extraction_success
            /\ results[i].error_message # None

\* C17 as stated: the excerpt placed in the LLM user message is at most 8000
\* characters long for every page.
C17_ExcerptAtMostLimit ==
    \A i \in LlmCalls : Len(events[i].content) <= ContentLimit

\* C17: the excerpt placed in the LLM user message is at most 8003 characters
\* long for every page: it is the cleaned text when that has at most 8000
\* characters, and otherwise the first 8000 characters of the cleaned text
\* followed by the three-character marker "...".
C17_ExcerptAtMostLimitPlusMarker ==
    \A i \in LlmCalls :
        /\ Len(events[i].content) <= ContentLimit + 3
        /\ Len(UncutContent[events[i].page].text) <= ContentLimit
               => events[i].content = UncutContent[events[i].page].text
        /\ Len(UncutContent[events[i].page].text) > ContentLimit
               => events[i].content =
                     SubSeq(UncutContent[events[i].page].text, 1, ContentLimit) \o "..."

C17_Witness ==
    \E i \in LlmCalls :
        /\ Len(UncutContent[events[i].page].text) > ContentLimit
        /\ Len(events[i].content) = ContentLimit + 3

\* the input items of the batch: the entries with a vendor page, or the markets
\* loaded from the file
ItemCount ==
    IF batch = "pages" THEN Len(valid_pages)
    ELSE IF batch = "markets" THEN Len(markets)
    ELSE Len(entries)

\* result i is the record of item i
ResultOfItem(i) ==
    IF batch = "pages"
    THEN /\ results[i].market_name = valid_pages[i].market_name
         /\ results[i].vendor_page_url = valid_pages[i].vendor_page_url
    ELSE IF batch = "markets"
    THEN /\ results[i].market_name = markets[i].name
         /\ results[i].market_url = markets[i].url
    ELSE /\ results[i].market_name = entries[i].market_name
         /\ results[i].page_url = entries[i].page_url

\* result i is flagged as failed and carries an error string
FlaggedFailed(i) ==
    IF batch = "pages"
    THEN /\ ~results[i].extraction_success
         /\ results[i].error_message.t = "str"
         /\ results[i].vendors = <<>>
    ELSE /\ results[i].error.t = "str"
         /\ results[i].vendors = <<>>

\* C11: in a batch of process_vendor_pages or process_all_markets, result i is
\* the record of input item i, a pass whose fetch fails appends a record
\* flagged as failed with an error string, and when the batch is over there is
\* exactly one result per input item, whichever fetches failed.
C11_OneResultPerItemInOrder ==
    /\ Len(results) <= ItemCount
    /\ Len(events) = Len(results)
    /\ bpc \in {"done", "raised"} => Len(results) = ItemCount
    /\ \A i \in 1..Len(results) :
          /\ ResultOfItem(i)
          /\ events[i].fetch \notin {"ok", "none"} => FlaggedFailed(i)

\* the market results, and the positions in the vendors collected from the
\* pages of market i (main page first, then the followed links in their order)
\* of the vendors whose name no earlier vendor has
MarketResults == IF batch = "markets" THEN 1..Len(results) ELSE {}

FirstOfName(i) ==
    {k \in 1..Len(events[i].raw) :
        \A j \in 1..(k - 1) : events[i].raw[j].name # events[i].raw[k].name}

\* C14: in the vendor list of every result of process_market no two vendors
\* have the same raw name, and the list is made of the first vendor of every
\* name, in the order in which the pages gave them.
C14_FirstOfEveryNameKept ==
    \A i \in MarketResults :
        /\ \A a, b \in 1..Len(results[i].vendors) :
                results[i].vendors[a].name = results[i].vendors[b].name => a = b
        /\ Len(results[i].vendors) = Cardinality(FirstOfName(i))
        /\ \A k \in FirstOfName(i) :
                results[i].vendors[Cardinality({j \in FirstOfName(i) : j <= k})]
                    = events[i].raw[k]

C14_Witness ==
    \E i \in MarketResults :
        /\ \E j, k \in 1..Len(events[i].raw) :
               /\ j < k /\ j \in FirstOfName(i)
               /\ events[i].raw[j].name = events[i].raw[k].name
               /\ events[i].raw[j].page_url = events[i].raw[k].page_url
               /\ events[i].raw[j] # events[i].raw[k]
        /\ \E j, k \in 1..Len(events[i].raw) :
               /\ j < k /\ j \in FirstOfName(i)
               /\ events[i].raw[j].name = events[i].raw[k].name
               /\ events[i].raw[j].page_url # events[i].raw[k].page_url

(***************************************************************************)
(* Claims about the vendor filter, checked under SpecFilter.               *)
(***************************************************************************)

\* C15: is_likely_vendor rejects a record whose name contains a denylist
\* substring (such as "Skip to content") whatever its declared type and
\* whatever patterns its name matches, rejects next a name of length outside
\* [3, 50], and accepts a record that passes both checks and has the declared
\* type "farm" (such as "Smith Family Farm").
C15_FirstMatchingRuleDecides ==
    apc = "called" =>
        /\ HasBadIndicator(vendor.name) => ~likely
        /\ Len(vendor.name) < 3 \/ Len(vendor.name) > 50 => ~likely
        /\ /\ ~HasBadIndicator(vendor.name)
           /\ Len(vendor.name) >= 3 /\ Len(vendor.name) <= 50
           /\ vendor.type = JStr("farm")
           => likely
        /\ vendor.name = "Skip to content" => ~likely
        /\ vendor = [name |-> "Smith Family Farm", type |-> JStr("farm")] => likely

C15_Witness ==
    /\ apc = "called"
    /\ vendor = [name |-> "Skip to content", type |-> JStr("farm")]
    /\ ~likely

(***************************************************************************)
(* Claims about the scraper, checked under SpecScrape.                     *)
(***************************************************************************)

\* scrape_site returned the "Invalid URL" result without a fetch
InvalidWithoutFetch ==
    /\ scraped.error = JStr("Invalid URL")
    /\ scraped.site_type = "invalid"
    /\ scraped.status_code = None
    /\ fetched = <<>>

\* C16 as stated: clean_url prefixes https:// to every non-empty URL that lacks
\* an http:// or https:// scheme and returns None for the bare "facebook.com";
\* for a URL clean_url rejects, scrape_site returns the "Invalid URL" result of
\* site type invalid without a fetch.
C16_SchemeDefaultAndSentinel ==
    spc = "done" /\ scrape_url # None =>
        /\ scrape_url.s = "facebook.com" => cleaned_url = None
        /\ scrape_url.s # "" /\ ~HasScheme(scrape_url.s) /\ scrape_url.s # "facebook.com"
              => cleaned_url = JStr("https://" \o scrape_url.s)
        /\ cleaned_url = None => InvalidWithoutFetch

\* C16: clean_url strips the whitespace around the URL and prefixes https:// to
\* every URL that is then non-empty and lacks an http:// or https:// scheme,
\* except that it returns None for the bare "facebook.com" and for
\* "or facebook.com"; for a URL clean_url rejects, scrape_site returns the
\* "Invalid URL" result of site type invalid without a fetch.
C16_SchemeDefaultAndSentinels ==
    spc = "done" =>
        /\ scrape_url # None =>
              /\ Strip(scrape_url.s) \in {"facebook.com", "or facebook.com"}
                    => cleaned_url = None
              /\ /\ Strip(scrape_url.s) # ""
                 /\ ~HasScheme(Strip(scrape_url.s))
                 /\ Strip(scrape_url.s) \notin {"facebook.com", "or facebook.com"}
                 => cleaned_url = JStr("https://" \o Strip(scrape_url.s))
        /\ cleaned_url = None => InvalidWithoutFetch
        /\ cleaned_url # None => fetched = <<cleaned_url.s>>

C16_Witness ==
    /\ spc = "done"
    /\ scrape_url = JStr("facebook.com")
    /\ cleaned_url = None
    /\ InvalidWithoutFetch

(***************************************************************************)
(* Claims about the frontier of the crawl, checked under SpecCrawl.        *)
(***************************************************************************)

\* the pages fetched by the running crawl
FetchCount == Cardinality({k \in 1..Len(fetch_log) : fetch_log[k].event = "fetch"})

\* a pass of the loop fetches a page
FetchPass == pc = "crawling" /\ Len(fetch_log') > Len(fetch_log)

\* C21: a frontier entry that is already visited or at max depth is discarded
\* without a fetch and without being added to the visited set, a page that is
\* fetched is below max depth, links are enqueued only by the pass that
\* fetches the depth-0 page, and every frontier entry has depth 0 or 1.
C21_NoFetchAtMaxDepth ==
    [][/\ LoopRuns /\ (current_url \in visited_urls \/ depth >= max_depth) =>
              /\ fetch_log' = fetch_log
              /\ visited_urls' = visited_urls
              /\ candidates' = candidates
              /\ to_visit' = Tail(to_visit)
       /\ FetchPass =>
              /\ LoopRuns /\ depth < max_depth
              /\ fetch_log'[Len(fetch_log) + 1] \in
                     {Fetched(current_url, outcome) : outcome \in {"200", "not 200", "exception"}}
       /\ LoopRuns /\ to_visit' # Tail(to_visit) => FetchPass /\ depth = 0
       /\ \A k \in 1..Len(to_visit') : to_visit'[k][2] \in {0, 1}]_vars

\* a crawl with max_depth 1 has returned: the root page was fetched and had
\* links to queue, none of which was fetched or marked visited
C21_Witness ==
    /\ pc = "returned" /\ crawls = 1
    /\ max_depth = 1
    /\ TopVendorLinks[variant, site.links].links # <<>>
    /\ fetch_log = <<Fetched(BaseUrl, "200"), Slept>>
    /\ visited_urls = {BaseUrl}
    /\ to_visit = <<>>

\* C22: a crawl never holds more candidates than its quota (5 for
\* find_vendor_page_candidates, 10 for crawl_for_vendors), every candidate
\* has a score of at least 0.3, and no page is fetched once the quota is
\* reached.
C22_QuotaAndThreshold ==
    [][/\ Len(candidates') <= Quota
       /\ \A k \in 1..Len(candidates') : FloatLeq(F_0_3, candidates'[k].score)
       /\ FetchPass => Len(candidates) < Quota]_vars

\* a crawl has returned several candidates and fetched a page that is none
C22_Witness ==
    /\ pc = "returned"
    /\ Len(candidates) >= 2
    /\ \E k \in 1..Len(fetch_log) :
          /\ fetch_log[k].event = "fetch" /\ fetch_log[k].outcome = "200"
          /\ \A c \in 1..Len(candidates) : candidates[c].page_url # fetch_log[k].url

\* C28: one crawl fetches at most the root page and the links enqueued from
\* it, 1 + 3 pages for find_vendor_page_candidates and 1 + 5 for
\* crawl_for_vendors, so its candidates stay below its quota of 5 or 10.
C28_FetchesBelowQuota ==
    /\ FetchCount <= 1 + TopLinks
    /\ Len(candidates) <= 1 + TopLinks
    /\ Len(candidates) < Quota

\* a crawl of crawl_for_vendors has returned after six fetches, from a root page
\* with more links that passed the filter than find_vendor_links returns
C28_Witness ==
    /\ pc = "returned" /\ variant = "crawler"
    /\ Len(CrawlerScoredLinks(site.links, BaseUrl, urlparse(BaseUrl), 1).links)
          > CrawlerTopLinks
    /\ FetchCount = 1 + CrawlerTopLinks

\* C29: the frontier never holds the same URL twice.
C29_FrontierUrlsDistinct ==
    \A i, j \in 1..Len(to_visit) : to_visit[i][1] = to_visit[j][1] => i = j



\* C23: whatever the outcomes of its fetches, a crawl that has been called
\* returns, and when it has returned the frontier is empty or the quota of
\* candidates has been reached.
C23_CrawlTerminates ==
    /\ (pc = "crawling") ~> (pc = "returned")
    /\ [](pc = "returned" => to_visit = <<>> \/ Len(candidates) >= Quota)

\* a crawl has returned after a fetch of each outcome
C23_Witness ==
    /\ pc = "returned"
    /\ to_visit = <<>>
    /\ \A outcome \in {"200", "not 200", "exception"} :
          \E k \in 1..Len(fetch_log) : fetch_log[k].event = "fetch" /\ fetch_log[k].outcome = outcome


(***************************************************************************)
(* Claims about the links followed from a market's main page, checked      *)
(* under SpecBatch.                                                        *)
(***************************************************************************)

\* the links process_market follows for result i: vendor_links[:3], the head of
\* result['vendor_pages_found'] = vendor_links[:5]
FollowedLinks(i) == Prefix(results[i].vendor_pages_found, 3)

\* C24: every link followed from the main page of a market has the host of the
\* market's URL, does not end in .pdf, .jpg, .png or .gif, and has an anchor
\* text that is not empty and not longer than 100 characters.
C24_FollowedLinksFiltered ==
    \A i \in MarketResults :
        \A k \in 1..Len(FollowedLinks(i)) :
            /\ urlparse(FollowedLinks(i)[k].url).netloc = urlparse(results[i].market_url).netloc
            /\ \A ext \in FileExtensions : ~EndsWith(Lower(FollowedLinks(i)[k].url), ext)
            /\ FollowedLinks(i)[k].text # ""
            /\ Len(FollowedLinks(i)[k].text) <= MaxLinkText


(***************************************************************************)
(* Claims about the files a batch writes, checked under SpecBatch.         *)
(***************************************************************************)

\* the file the batch writes last
FinalFile ==
    IF batch = "pages" THEN "claude_vendor_extraction.json"
    ELSE IF batch = "markets" THEN "comprehensive_vendors_0_" \o Str(Len(markets)) \o ".json"
    ELSE "llm_extracted_vendors.json"

\* the results a file written holds: the document itself, or its member
\* "results" in the final file of process_all_markets
FileResults(file) ==
    IF batch = "markets" /\ file = FinalFile THEN saved[file].results ELSE saved[file]

\* result k is held by a file written
InFile(k) ==
    \E file \in DOMAIN saved :
        \E j \in 1..Len(FileResults(file)) : FileResults(file)[j] = results[k]

\* C25: at every point of a batch every result produced, except at most the
\* nine most recent, is held by a file written, and once the batch is over
\* after its last item the final output file holds all the results in order.
C25_CheckpointsBoundLoss ==
    /\ \A k \in 1..Len(results) :
          k <= Len(results) - (CheckpointInterval - 1) => InFile(k)
    /\ bpc \in {"done", "raised"} /\ Len(results) = ItemCount /\ Len(results) > 0 =>
          FinalFile \in DOMAIN saved /\ FileResults(FinalFile) = results

(***************************************************************************)
(* Claims about the result records of the extractors, checked under        *)
(* SpecParser.                                                             *)
(***************************************************************************)

\* the calls that return a result record
ReturnsResult ==
    parser \in {"extract_vendors_from_page", "extract_vendors_from_content",
                "extract_vendors_from_content_api_error"}

\* C30: in every result of ClaudeVendorExtractor.extract_vendors_from_page and
\* of LLMVendorExtractor.extract_vendors_from_content, extraction_success is
\* false exactly when error_message is not null, and a result whose
\* extraction_success is false has no vendors.
C30_FailureIffErrorMessage ==
    ReturnsResult =>
        /\ ~result.extraction_success <=> result.error_message # None
        /\ ~result.extraction_success => result.vendors = <<>>

\* extract_vendors_from_content has returned a failure on a response that
\* names vendors: float("high") raised ValueError on the confidence of one of
\* them, and error_message is the str(e) of that exception
C30_Witness ==
    /\ parser = "extract_vendors_from_content"
    /\ ~result.extraction_success
    /\ result.error_message = JStr("could not convert string to float: 'high'")
    /\ result.vendors = <<>>
    /\ extract_with_claude(TRUE, response_text, BatchFrames) # <<>>


(***************************************************************************)
(* Claims about the cleaned name, checked under SpecFilter.                *)
(***************************************************************************)

\* the cleaned name fails the denylist check or the length check
CleanedNameRejected ==
    \/ HasBadIndicator(clean_name)
    \/ Len(clean_name) < MinNameLength \/ Len(clean_name) > MaxNameLength

\* C26: the denylist check and the length check decide on the cleaned name: a
\* record whose cleaned name contains a denylist substring or is shorter than 3
\* or longer than 50 characters is rejected, and a record whose cleaned name
\* passes both checks and whose declared type is in the known-good set is
\* accepted, whatever its raw name is.
C26_ChecksOnCleanedName ==
    apc = "called" =>
        /\ CleanedNameRejected => ~likely
        /\ ~CleanedNameRejected /\ HasGoodType(vendor) => likely


(***************************************************************************)
(* Claims about the text fallback of improved_json_parser, checked under   *)
(* SpecParser.                                                             *)
(***************************************************************************)

\* the values of the occurrences, from position i on and in text order, of a
\* name key, quoted ("name":) or not (name:), followed by optional whitespace
\* and a quoted non-empty value; p is where the next "name" starts
RECURSIVE NameKeyValues(_, _, _)
NameKeyValues(s, lowered, i) ==
    LET Value(p, a, b) ==
            IF Ch(s, a) # "\"" \/ b < a + 2 THEN NameKeyValues(s, lowered, p + 1)
            ELSE <<Slice(s, a + 1, b)>> \o NameKeyValues(s, lowered, b + 1)
        Key(p, after) ==
            Value(p, SkipWs(s, after), Find(s, "\"", SkipWs(s, after) + 1))
        Name(p) ==
            IF p = 0 THEN <<>>
            ELSE IF p > i /\ Ch(s, p - 1) = "\"" /\ StartsAt(lowered, "name\":", p)
            THEN Key(p, p + 6)
            ELSE IF StartsAt(lowered, "name:", p) THEN Key(p, p + 5)
            ELSE NameKeyValues(s, lowered, p + 1)
    IN Name(Find(lowered, "name", i))

\* the partial records of the values, each tagged source = regex_extraction
PartialRecords(names) ==
    JArr([k \in 1..Len(names) |->
            JObj(<<"name", "source">>, <<JStr(names[k]), JStr("regex_extraction")>>)])

\* C27: improved_json_parser uses the text fallback only when the parse of the
\* whole response and every pattern candidate have failed, and it then returns
\* one partial record, tagged source = regex_extraction, per occurrence in the
\* raw text of a quoted "name": "<value>" key or of an unquoted name: "<value>"
\* key, in text order.
C27_FallbackLastAndComplete ==
    parser = "improved_json_parser" =>
        /\ json_loads(response_text, ParserFrames).ok =>
                result.value = json_loads(response_text, ParserFrames).val
        /\ Caught(json_loads(response_text, ParserFrames)) /\ TryPatterns(response_text, 1).ok =>
                result.value = TryPatterns(response_text, 1).val
        /\ Caught(json_loads(response_text, ParserFrames)) /\ Caught(TryPatterns(response_text, 1)) =>
                result.value
                    = PartialRecords(NameKeyValues(response_text, Lower(response_text), 1))

====
